---------------------------- MODULE Spec2Model ----------------------------
(***************************************************************************)
(* pytest-diff core: block extraction (parser.rs), fingerprinting, change  *)
(* detection and coverage filtering (fingerprint.rs), the LRU cache        *)
(* (cache.rs), the coverage collector (tracer.rs) and the test database    *)
(* (database.rs).                                                          *)
(*                                                                         *)
(* Text is a sequence of one-character strings.  A source is read from a   *)
(* catalogue of Python sources; for each the catalogue also records the    *)
(* statement tree rustpython_parser returns for it, with every offset      *)
(* already converted to its 1-indexed line (get_line_number).  A           *)
(* statement's range starts at its def/class keyword, after its            *)
(* decorators (parser.rs, test_body_start_line_decorated_class).           *)
(***************************************************************************)
EXTENDS Integers, Sequences, FiniteSets, TLC

\* ------------------------------------------------------------------------
\* Statement nodes of rustpython_parser::ast, reduced to what parser.rs reads
\* ------------------------------------------------------------------------

\* A statement with no nested statement list (import, assignment, return, ...).
Simple(start, end) ==
  [kind |-> "Other", name |-> "", start |-> start, end |-> end,
   decorator_list |-> <<>>, body |-> <<>>, orelse |-> <<>>,
   handlers |-> <<>>, finalbody |-> <<>>]

\* FunctionDef, AsyncFunctionDef or ClassDef; decorator_list holds the line of
\* each decorator expression.
Definition(kind, name, start, end, decorator_list, body) ==
  [kind |-> kind, name |-> name, start |-> start, end |-> end,
   decorator_list |-> decorator_list, body |-> body, orelse |-> <<>>,
   handlers |-> <<>>, finalbody |-> <<>>]

\* If, For, While, With or Try; handlers holds the body of each except clause.
Compound(kind, start, end, body, orelse, handlers, finalbody) ==
  [kind |-> kind, name |-> "", start |-> start, end |-> end,
   decorator_list |-> <<>>, body |-> body, orelse |-> orelse,
   handlers |-> handlers, finalbody |-> finalbody]

\* ------------------------------------------------------------------------
\* The catalogue of sources
\* ------------------------------------------------------------------------

\* The byte value of each character the sources use.
ByteOf ==
  ("\n" :> 10) @@ (" " :> 32) @@ ("\"" :> 34) @@ ("#" :> 35) @@ ("(" :> 40) @@ (")" :> 41)
  @@ ("1" :> 49) @@ ("2" :> 50) @@ ("3" :> 51) @@ (":" :> 58) @@ ("=" :> 61) @@ ("@" :> 64)
  @@ ("C" :> 67) @@ ("D" :> 68) @@ ("E" :> 69) @@ ("_" :> 95) @@ ("a" :> 97) @@ ("c" :> 99)
  @@ ("d" :> 100) @@ ("e" :> 101) @@ ("f" :> 102) @@ ("g" :> 103) @@ ("h" :> 104) @@ ("i" :> 105)
  @@ ("k" :> 107) @@ ("l" :> 108) @@ ("m" :> 109) @@ ("n" :> 110) @@ ("o" :> 111) @@ ("p" :> 112)
  @@ ("r" :> 114) @@ ("s" :> 115) @@ ("t" :> 116) @@ ("u" :> 117) @@ ("x" :> 120) @@ ("y" :> 121)
  @@ ("z" :> 122)

\* a module statement, a decorated function and a plain function:
\*   | x = 1
\*   | @d
\*   | def f(a):
\*   |     return 1
\*   | def g():
\*   |     return 2
SrcBase ==
  [text |-> <<"x", " ", "=", " ", "1", "\n">>
            \o <<"@", "d", "\n">>
            \o <<"d", "e", "f", " ", "f", "(", "a", ")", ":", "\n">>
            \o <<" ", " ", " ", " ", "r", "e", "t", "u", "r", "n", " ", "1", "\n">>
            \o <<"d", "e", "f", " ", "g", "(", ")", ":", "\n">>
            \o <<" ", " ", " ", " ", "r", "e", "t", "u", "r", "n", " ", "2", "\n">>,
   parse_ok |-> TRUE,
   suite |-> <<
     Simple(1, 1),
     Definition("FunctionDef", "f", 3, 4, <<2>>, <<Simple(4, 4)>>),
     Definition("FunctionDef", "g", 5, 6, <<>>, <<Simple(6, 6)>>)
   >>]

\* SrcBase with the body of f edited:
\*   | x = 1
\*   | @d
\*   | def f(a):
\*   |     return 3
\*   | def g():
\*   |     return 2
SrcBodyEdit ==
  [text |-> <<"x", " ", "=", " ", "1", "\n">>
            \o <<"@", "d", "\n">>
            \o <<"d", "e", "f", " ", "f", "(", "a", ")", ":", "\n">>
            \o <<" ", " ", " ", " ", "r", "e", "t", "u", "r", "n", " ", "3", "\n">>
            \o <<"d", "e", "f", " ", "g", "(", ")", ":", "\n">>
            \o <<" ", " ", " ", " ", "r", "e", "t", "u", "r", "n", " ", "2", "\n">>,
   parse_ok |-> TRUE,
   suite |-> <<
     Simple(1, 1),
     Definition("FunctionDef", "f", 3, 4, <<2>>, <<Simple(4, 4)>>),
     Definition("FunctionDef", "g", 5, 6, <<>>, <<Simple(6, 6)>>)
   >>]

\* SrcBase with the decorator of f removed:
\*   | x = 1
\*   | def f(a):
\*   |     return 1
\*   | def g():
\*   |     return 2
SrcNoDeco ==
  [text |-> <<"x", " ", "=", " ", "1", "\n">>
            \o <<"d", "e", "f", " ", "f", "(", "a", ")", ":", "\n">>
            \o <<" ", " ", " ", " ", "r", "e", "t", "u", "r", "n", " ", "1", "\n">>
            \o <<"d", "e", "f", " ", "g", "(", ")", ":", "\n">>
            \o <<" ", " ", " ", " ", "r", "e", "t", "u", "r", "n", " ", "2", "\n">>,
   parse_ok |-> TRUE,
   suite |-> <<
     Simple(1, 1),
     Definition("FunctionDef", "f", 2, 3, <<>>, <<Simple(3, 3)>>),
     Definition("FunctionDef", "g", 4, 5, <<>>, <<Simple(5, 5)>>)
   >>]

\* SrcBase with a comment line between two top-level statements:
\*   | x = 1
\*   | # c
\*   | @d
\*   | def f(a):
\*   |     return 1
\*   | def g():
\*   |     return 2
SrcComment ==
  [text |-> <<"x", " ", "=", " ", "1", "\n">>
            \o <<"#", " ", "c", "\n">>
            \o <<"@", "d", "\n">>
            \o <<"d", "e", "f", " ", "f", "(", "a", ")", ":", "\n">>
            \o <<" ", " ", " ", " ", "r", "e", "t", "u", "r", "n", " ", "1", "\n">>
            \o <<"d", "e", "f", " ", "g", "(", ")", ":", "\n">>
            \o <<" ", " ", " ", " ", "r", "e", "t", "u", "r", "n", " ", "2", "\n">>,
   parse_ok |-> TRUE,
   suite |-> <<
     Simple(1, 1),
     Definition("FunctionDef", "f", 4, 5, <<3>>, <<Simple(5, 5)>>),
     Definition("FunctionDef", "g", 6, 7, <<>>, <<Simple(7, 7)>>)
   >>]

\* a source the parser rejects:
\*   | def f(
SrcBroken ==
  [text |-> <<"d", "e", "f", " ", "f", "(", "\n">>,
   parse_ok |-> FALSE,
   suite |-> <<>>]

\* a function defined under a top-level if:
\*   | if x:
\*   |     def h():
\*   |         return 1
SrcIfDef ==
  [text |-> <<"i", "f", " ", "x", ":", "\n">>
            \o <<" ", " ", " ", " ", "d", "e", "f", " ", "h", "(", ")", ":", "\n">>
            \o <<" ", " ", " ", " ", " ", " ", " ", " ", "r", "e", "t", "u", "r", "n", " ", "1", "\n">>,
   parse_ok |-> TRUE,
   suite |-> <<
     Compound("If", 1, 3, <<Definition("FunctionDef", "h", 2, 3, <<>>, <<Simple(3, 3)>>)>>, <<>>, <<>>, <<>>)
   >>]

\* SrcIfDef with the body of h edited:
\*   | if x:
\*   |     def h():
\*   |         return 2
SrcIfDefEdit ==
  [text |-> <<"i", "f", " ", "x", ":", "\n">>
            \o <<" ", " ", " ", " ", "d", "e", "f", " ", "h", "(", ")", ":", "\n">>
            \o <<" ", " ", " ", " ", " ", " ", " ", " ", "r", "e", "t", "u", "r", "n", " ", "2", "\n">>,
   parse_ok |-> TRUE,
   suite |-> <<
     Compound("If", 1, 3, <<Definition("FunctionDef", "h", 2, 3, <<>>, <<Simple(3, 3)>>)>>, <<>>, <<>>, <<>>)
   >>]

\* a test module:
\*   | def test_a():
\*   |     f(1)
SrcTest ==
  [text |-> <<"d", "e", "f", " ", "t", "e", "s", "t", "_", "a", "(", ")", ":", "\n">>
            \o <<" ", " ", " ", " ", "f", "(", "1", ")", "\n">>,
   parse_ok |-> TRUE,
   suite |-> <<
     Definition("FunctionDef", "test_a", 1, 2, <<>>, <<Simple(2, 2)>>)
   >>]

\* a module without definitions:
\*   | y = 2
SrcPlain ==
  [text |-> <<"y", " ", "=", " ", "2", "\n">>,
   parse_ok |-> TRUE,
   suite |-> <<
     Simple(1, 1)
   >>]

\* a header whose default value is a string holding a parenthesis:
\*   | def k(a=")"):
\*   |     return 1
SrcParen ==
  [text |-> <<"d", "e", "f", " ", "k", "(", "a", "=", "\"", ")", "\"", ")", ":", "\n">>
            \o <<" ", " ", " ", " ", "r", "e", "t", "u", "r", "n", " ", "1", "\n">>,
   parse_ok |-> TRUE,
   suite |-> <<
     Definition("FunctionDef", "k", 1, 2, <<>>, <<Simple(2, 2)>>)
   >>]

\* SrcParen with the body of k edited:
\*   | def k(a=")"):
\*   |     return 2
SrcParenEdit ==
  [text |-> <<"d", "e", "f", " ", "k", "(", "a", "=", "\"", ")", "\"", ")", ":", "\n">>
            \o <<" ", " ", " ", " ", "r", "e", "t", "u", "r", "n", " ", "2", "\n">>,
   parse_ok |-> TRUE,
   suite |-> <<
     Definition("FunctionDef", "k", 1, 2, <<>>, <<Simple(2, 2)>>)
   >>]

\* a class with one method:
\*   | class C:
\*   |     def m(self):
\*   |         return 1
SrcClass ==
  [text |-> <<"c", "l", "a", "s", "s", " ", "C", ":", "\n">>
            \o <<" ", " ", " ", " ", "d", "e", "f", " ", "m", "(", "s", "e", "l", "f", ")", ":", "\n">>
            \o <<" ", " ", " ", " ", " ", " ", " ", " ", "r", "e", "t", "u", "r", "n", " ", "1", "\n">>,
   parse_ok |-> TRUE,
   suite |-> <<
     Definition("ClassDef", "C", 1, 3, <<>>, <<Definition("FunctionDef", "m", 2, 3, <<>>, <<Simple(3, 3)>>)>>)
   >>]

\* SrcClass with the body of m edited:
\*   | class C:
\*   |     def m(self):
\*   |         return 2
SrcClassEdit ==
  [text |-> <<"c", "l", "a", "s", "s", " ", "C", ":", "\n">>
            \o <<" ", " ", " ", " ", "d", "e", "f", " ", "m", "(", "s", "e", "l", "f", ")", ":", "\n">>
            \o <<" ", " ", " ", " ", " ", " ", " ", " ", "r", "e", "t", "u", "r", "n", " ", "2", "\n">>,
   parse_ok |-> TRUE,
   suite |-> <<
     Definition("ClassDef", "C", 1, 3, <<>>, <<Definition("FunctionDef", "m", 2, 3, <<>>, <<Simple(3, 3)>>)>>)
   >>]

\* a class with a decorated method that defines a function, a nested class, and a function after the class:
\*   | class C:
\*   |  @d
\*   |  def m(s):
\*   |   def n():
\*   |    pass
\*   |  class D:
\*   |   pass
\*   | def g():
\*   |  pass
SrcNested ==
  [text |-> <<"c", "l", "a", "s", "s", " ", "C", ":", "\n">>
            \o <<" ", "@", "d", "\n">>
            \o <<" ", "d", "e", "f", " ", "m", "(", "s", ")", ":", "\n">>
            \o <<" ", " ", "d", "e", "f", " ", "n", "(", ")", ":", "\n">>
            \o <<" ", " ", " ", "p", "a", "s", "s", "\n">>
            \o <<" ", "c", "l", "a", "s", "s", " ", "D", ":", "\n">>
            \o <<" ", " ", "p", "a", "s", "s", "\n">>
            \o <<"d", "e", "f", " ", "g", "(", ")", ":", "\n">>
            \o <<" ", "p", "a", "s", "s", "\n">>,
   parse_ok |-> TRUE,
   suite |-> <<
     Definition("ClassDef", "C", 1, 7, <<>>, <<Definition("FunctionDef", "m", 3, 5, <<2>>, <<Definition("FunctionDef", "n", 4, 5, <<>>, <<Simple(5, 5)>>)>>), Definition("ClassDef", "D", 6, 7, <<>>, <<Simple(7, 7)>>)>>),
     Definition("FunctionDef", "g", 8, 9, <<>>, <<Simple(9, 9)>>)
   >>]

\* a one-line function in each part of a try statement:
\*   | try:
\*   |  def t(): pass
\*   | except E:
\*   |  def e(): pass
\*   | else:
\*   |  def o(): pass
\*   | finally:
\*   |  def z(): pass
SrcTry ==
  [text |-> <<"t", "r", "y", ":", "\n">>
            \o <<" ", "d", "e", "f", " ", "t", "(", ")", ":", " ", "p", "a", "s", "s", "\n">>
            \o <<"e", "x", "c", "e", "p", "t", " ", "E", ":", "\n">>
            \o <<" ", "d", "e", "f", " ", "e", "(", ")", ":", " ", "p", "a", "s", "s", "\n">>
            \o <<"e", "l", "s", "e", ":", "\n">>
            \o <<" ", "d", "e", "f", " ", "o", "(", ")", ":", " ", "p", "a", "s", "s", "\n">>
            \o <<"f", "i", "n", "a", "l", "l", "y", ":", "\n">>
            \o <<" ", "d", "e", "f", " ", "z", "(", ")", ":", " ", "p", "a", "s", "s", "\n">>,
   parse_ok |-> TRUE,
   suite |-> <<
     Compound("Try", 1, 8, <<Definition("FunctionDef", "t", 2, 2, <<>>, <<Simple(2, 2)>>)>>, <<Definition("FunctionDef", "o", 6, 6, <<>>, <<Simple(6, 6)>>)>>, <<<<Definition("FunctionDef", "e", 4, 4, <<>>, <<Simple(4, 4)>>)>>>>, <<Definition("FunctionDef", "z", 8, 8, <<>>, <<Simple(8, 8)>>)>>)
   >>]

\* the empty source:
\*   | 
SrcEmpty ==
  [text |-> <<>>,
   parse_ok |-> TRUE,
   suite |-> <<>>]

\* SrcBase with f and g in the other order:
\*   | x = 1
\*   | def g():
\*   |     return 2
\*   | @d
\*   | def f(a):
\*   |     return 1
SrcReorder ==
  [text |-> <<"x", " ", "=", " ", "1", "\n">>
            \o <<"d", "e", "f", " ", "g", "(", ")", ":", "\n">>
            \o <<" ", " ", " ", " ", "r", "e", "t", "u", "r", "n", " ", "2", "\n">>
            \o <<"@", "d", "\n">>
            \o <<"d", "e", "f", " ", "f", "(", "a", ")", ":", "\n">>
            \o <<" ", " ", " ", " ", "r", "e", "t", "u", "r", "n", " ", "1", "\n">>,
   parse_ok |-> TRUE,
   suite |-> <<
     Simple(1, 1),
     Definition("FunctionDef", "g", 2, 3, <<>>, <<Simple(3, 3)>>),
     Definition("FunctionDef", "f", 5, 6, <<4>>, <<Simple(6, 6)>>)
   >>]

\* a function defined twice with the same text:
\*   | def f():
\*   |     return 1
\*   | def f():
\*   |     return 1
SrcTwin ==
  [text |-> <<"d", "e", "f", " ", "f", "(", ")", ":", "\n">>
            \o <<" ", " ", " ", " ", "r", "e", "t", "u", "r", "n", " ", "1", "\n">>
            \o <<"d", "e", "f", " ", "f", "(", ")", ":", "\n">>
            \o <<" ", " ", " ", " ", "r", "e", "t", "u", "r", "n", " ", "1", "\n">>,
   parse_ok |-> TRUE,
   suite |-> <<
     Definition("FunctionDef", "f", 1, 2, <<>>, <<Simple(2, 2)>>),
     Definition("FunctionDef", "f", 3, 4, <<>>, <<Simple(4, 4)>>)
   >>]

\* SrcTwin with the body of the first f edited:
\*   | def f():
\*   |     return 2
\*   | def f():
\*   |     return 1
SrcTwinEdit ==
  [text |-> <<"d", "e", "f", " ", "f", "(", ")", ":", "\n">>
            \o <<" ", " ", " ", " ", "r", "e", "t", "u", "r", "n", " ", "2", "\n">>
            \o <<"d", "e", "f", " ", "f", "(", ")", ":", "\n">>
            \o <<" ", " ", " ", " ", "r", "e", "t", "u", "r", "n", " ", "1", "\n">>,
   parse_ok |-> TRUE,
   suite |-> <<
     Definition("FunctionDef", "f", 1, 2, <<>>, <<Simple(2, 2)>>),
     Definition("FunctionDef", "f", 3, 4, <<>>, <<Simple(4, 4)>>)
   >>]

Catalogue ==
  <<SrcBase,
    SrcBodyEdit,
    SrcNoDeco,
    SrcComment,
    SrcBroken,
    SrcIfDef,
    SrcIfDefEdit,
    SrcTest,
    SrcPlain,
    SrcParen,
    SrcParenEdit,
    SrcClass,
    SrcClassEdit,
    SrcNested,
    SrcTry,
    SrcEmpty,
    SrcReorder,
    SrcTwin,
    SrcTwinEdit>>

\* ------------------------------------------------------------------------
\* Text helpers (std::str)
\* ------------------------------------------------------------------------

Range(s) == {s[i] : i \in DOMAIN s}

Max(a, b) == IF a >= b THEN a ELSE b

Min(a, b) == IF a <= b THEN a ELSE b

Abs(a) == IF a >= 0 THEN a ELSE -a

IsWhitespace(ch) == ch \in {" ", "\t", "\n", "\r"}

\* str::trim_end
RECURSIVE TrimEnd(_)
TrimEnd(line) ==
  IF line # <<>> /\ IsWhitespace(line[Len(line)])
  THEN TrimEnd(SubSeq(line, 1, Len(line) - 1))
  ELSE line

\* str::ends_with / str::starts_with on texts
EndsWith(text, suffix) ==
  /\ Len(suffix) <= Len(text)
  /\ SubSeq(text, Len(text) - Len(suffix) + 1, Len(text)) = suffix

StartsWith(text, prefix) ==
  /\ Len(prefix) <= Len(text)
  /\ SubSeq(text, 1, Len(prefix)) = prefix

\* str::contains
Contains(text, piece) ==
  \E i \in 0..(Len(text) - Len(piece)) : SubSeq(text, i + 1, i + Len(piece)) = piece

\* str::lines: split at "\n", drop a "\r" before it, no empty last line.
Lines(text) ==
  LET breaks == {i \in DOMAIN text : text[i] = "\n"}
      count == Cardinality(breaks)
      \* the k-th line break; 0 before the first
      Break(k) == IF k = 0 THEN 0
                  ELSE CHOOSE i \in breaks : Cardinality({j \in breaks : j < i}) = k - 1
      Piece(k) == IF k <= count THEN SubSeq(text, Break(k - 1) + 1, Break(k) - 1)
                  ELSE SubSeq(text, Break(count) + 1, Len(text))
      NoCR(line) == IF line # <<>> /\ line[Len(line)] = "\r"
                    THEN SubSeq(line, 1, Len(line) - 1) ELSE line
      pieces == IF Break(count) = Len(text) THEN count ELSE count + 1
  IN [k \in 1..pieces |-> IF k <= count THEN NoCR(Piece(k)) ELSE Piece(k)]

\* [&str]::join(sep)
RECURSIVE Join(_, _)
Join(parts, sep) ==
  IF parts = <<>> THEN <<>>
  ELSE IF Len(parts) = 1 THEN parts[1]
  ELSE parts[1] \o sep \o Join(Tail(parts), sep)

\* ------------------------------------------------------------------------
\* parser.rs
\* ------------------------------------------------------------------------

\* The 32-bit checksum: crc32fast is rendered as a polynomial hash of the
\* bytes, kept inside the non-negative half of i32.
\* Horner's rule over the bytes text[i..], from the running value h.
RECURSIVE HashBytes(_, _, _, _, _)
HashBytes(text, i, h, base, modulus) ==
  IF i > Len(text) THEN h
  ELSE LET next == (h * base + ByteOf[text[i]]) % modulus
       IN IF next >= 0 THEN HashBytes(text, i + 1, next, base, modulus) ELSE next

calculate_checksum(source) == HashBytes(source, 1, 0, 127, 16777213)

I32Min == -2147483647 - 1

\* i32::saturating_sub(1)
SaturatingDec(d) == IF d = I32Min THEN d ELSE d - 1

RECURSIVE StripScan(_, _, _, _)
StripScan(line, i, in_single, in_double) ==
  IF i > Len(line) THEN line
  ELSE LET ch == line[i] IN
    IF ch = "\\" /\ (in_single \/ in_double)
      THEN StripScan(line, i + 2, in_single, in_double)
    ELSE IF ch = "'" /\ ~in_double
      THEN StripScan(line, i + 1, ~in_single, in_double)
    ELSE IF ch = "\"" /\ ~in_single
      THEN StripScan(line, i + 1, in_single, ~in_double)
    ELSE IF ch = "#" /\ ~in_single /\ ~in_double
      THEN TrimEnd(SubSeq(line, 1, i - 1))
    ELSE StripScan(line, i + 1, in_single, in_double)

strip_trailing_comment(line) == StripScan(line, 1, FALSE, FALSE)

\* The three depths after the characters of one line; a character that is
\* no bracket leaves them alone.
RECURSIVE UpdateDepths(_, _, _)
UpdateDepths(line, i, d) ==
  IF i > Len(line) THEN d
  ELSE IF line[i] \notin {"(", ")", "[", "]", "{", "}"}
    THEN UpdateDepths(line, i + 1, d)
  ELSE LET ch == line[i] IN
    UpdateDepths(line, i + 1,
      IF ch = "(" THEN [d EXCEPT !.paren = @ + 1]
      ELSE IF ch = ")" THEN [d EXCEPT !.paren = SaturatingDec(@)]
      ELSE IF ch = "[" THEN [d EXCEPT !.bracket = @ + 1]
      ELSE IF ch = "]" THEN [d EXCEPT !.bracket = SaturatingDec(@)]
      ELSE IF ch = "{" THEN [d EXCEPT !.brace = @ + 1]
      ELSE [d EXCEPT !.brace = SaturatingDec(@)])

RECURSIVE SignatureScan(_, _, _, _)
SignatureScan(source_lines, i, range_end, d) ==
  IF i > range_end THEN <<>>
  ELSE LET line == source_lines[i]
           nd == UpdateDepths(line, 1, d)
           code_part == strip_trailing_comment(TrimEnd(line))
       IN IF EndsWith(code_part, <<":">>)
             /\ nd.paren = 0 /\ nd.bracket = 0 /\ nd.brace = 0
          THEN <<line>>
          ELSE <<line>> \o SignatureScan(source_lines, i + 1, range_end, nd)

extract_signature_lines(source_lines, start, end) ==
  SignatureScan(source_lines, start, Min(end, Len(source_lines)),
                [paren |-> 0, bracket |-> 0, brace |-> 0])

\* Ok(text) or Err: start outside 1..len bails.
extract_source_lines(source, start, end) ==
  LET lines == Lines(source) IN
  IF start < 1 \/ start > Len(lines)
  THEN [ok |-> FALSE, text |-> <<>>]
  ELSE [ok |-> TRUE,
        text |-> Join(SubSeq(lines, start, Min(end, Len(lines))), <<"\n">>)]

IsDefinition(stmt) == stmt.kind \in {"FunctionDef", "AsyncFunctionDef", "ClassDef"}

RECURSIVE SkeletonParts(_, _, _)
SkeletonParts(source, parsed, i) ==
  IF i > Len(parsed) THEN <<>>
  ELSE LET stmt == parsed[i]
           source_lines == Lines(source)
           part ==
             IF stmt.start <= Len(source_lines)
             THEN IF IsDefinition(stmt)
                  THEN <<Join(extract_signature_lines(source_lines, stmt.start, stmt.end),
                              <<"\n">>)>>
                  ELSE <<extract_source_lines(source, stmt.start, stmt.end).text>>
             ELSE <<>>
       IN part \o SkeletonParts(source, parsed, i + 1)

extract_module_skeleton(source, parsed) ==
  Join(SkeletonParts(source, parsed, 1), <<"\n">>)

BlockType(kind) ==
  CASE kind = "FunctionDef" -> "function"
    [] kind = "AsyncFunctionDef" -> "async_function"
    [] kind = "ClassDef" -> "class"

\* The block of one definition; ok is FALSE where extract_source_lines bails.
DefinitionBlock(stmt, source, start, body_start_line) ==
  LET block_source == extract_source_lines(source, start, stmt.end) IN
  [ok |-> block_source.ok,
   start_line |-> start,
   end_line |-> stmt.end,
   checksum |-> calculate_checksum(block_source.text),
   name |-> stmt.name,
   block_type |-> BlockType(stmt.kind),
   body_start_line |-> body_start_line]

RECURSIVE extract_blocks_from_statements(_, _)
RECURSIVE extract_block_from_statement(_, _)
RECURSIVE ExtractHandlers(_, _)

\* The callable block with its body put at the def line.
extract_callable_block_at_header(stmt, source) ==
  LET def_line == stmt.start
      start == IF stmt.decorator_list # <<>> THEN stmt.decorator_list[1] ELSE def_line
  IN <<DefinitionBlock(stmt, source, start, def_line)>>
     \o extract_blocks_from_statements(stmt.body, source)

\* Function and async function: the block starts at the first decorator, its
\* body at the first body statement.
extract_callable_block(stmt, source) ==
  LET def_line == stmt.start
      start == IF stmt.decorator_list # <<>> THEN stmt.decorator_list[1] ELSE def_line
      body_start_line == IF stmt.body # <<>> THEN stmt.body[1].start ELSE def_line
  IN <<DefinitionBlock(stmt, source, start, body_start_line)>>
     \o extract_blocks_from_statements(stmt.body, source)

extract_block_from_statement(stmt, source) ==
  CASE stmt.kind \in {"FunctionDef", "AsyncFunctionDef"} ->
         extract_callable_block(stmt, source)
    [] stmt.kind = "ClassDef" ->
         LET def_line == stmt.start
             start == IF stmt.decorator_list # <<>>
                      THEN stmt.decorator_list[1] ELSE def_line
         IN <<DefinitionBlock(stmt, source, start, def_line)>>
            \o extract_blocks_from_statements(stmt.body, source)
    [] stmt.kind \in {"If", "For", "While"} ->
         extract_blocks_from_statements(stmt.body, source)
         \o extract_blocks_from_statements(stmt.orelse, source)
    [] stmt.kind = "With" ->
         extract_blocks_from_statements(stmt.body, source)
    [] stmt.kind = "Try" ->
         extract_blocks_from_statements(stmt.body, source)
         \o ExtractHandlers(stmt.handlers, source)
         \o extract_blocks_from_statements(stmt.orelse, source)
         \o extract_blocks_from_statements(stmt.finalbody, source)
    [] OTHER -> <<>>

ExtractHandlers(handlers, source) ==
  IF handlers = <<>> THEN <<>>
  ELSE extract_blocks_from_statements(handlers[1], source)
       \o ExtractHandlers(Tail(handlers), source)

\* The statements of the list taken from the last to the first.
extract_blocks_from_statements_reversed(statements, source) ==
  IF statements = <<>> THEN <<>>
  ELSE extract_blocks_from_statements(Tail(statements), source)
       \o extract_block_from_statement(statements[1], source)

extract_blocks_from_statements(statements, source) ==
  IF statements = <<>> THEN <<>>
  ELSE extract_block_from_statement(statements[1], source)
       \o extract_blocks_from_statements(Tail(statements), source)

\* ast::Suite::parse: the statement tree the catalogue records for this text.
SuiteParse(source) ==
  LET entry == CHOOSE e \in Range(Catalogue) : e.text = source
  IN [ok |-> entry.parse_ok, suite |-> entry.suite]

\* Ok(blocks) or Err.
parse_module_internal(source) ==
  LET parsed == SuiteParse(source) IN
  IF ~parsed.ok THEN [ok |-> FALSE, blocks |-> <<>>]
  ELSE LET module_skeleton == extract_module_skeleton(source, parsed.suite)
           line_count == Len(Lines(source))
           module == [ok |-> TRUE,
                      start_line |-> 1,
                      end_line |-> Max(line_count, 1),
                      checksum |-> calculate_checksum(module_skeleton),
                      name |-> "<module>",
                      block_type |-> "module",
                      body_start_line |-> 1]
           blocks == <<module>> \o extract_blocks_from_statements(parsed.suite, source)
       IN IF \E i \in DOMAIN blocks : ~blocks[i].ok
          THEN [ok |-> FALSE, blocks |-> <<>>]
          ELSE [ok |-> TRUE, blocks |-> blocks]


\* ------------------------------------------------------------------------
\* Paths (std::path) and the file tree
\* ------------------------------------------------------------------------

\* A path is absolute and normalised, and is named by its string; canonicalize
\* is the identity on such paths.

\* the project root
DirP == "/p"

DirS == "/p/s"

DirO == "/p/o"

\* a directory beside the project root
DirP2 == "/p2"

\* the source file under edit
FileA == "/p/s/a.py"

FileTestA == "/p/s/test_a.py"

FileLTest == "/p/s/l_test.py"

FileB == "/p/o/b.py"

FileU == "/p/tests/u.py"

\* a file in a hidden directory
FileD == "/p/.h/d.py"

FileN == "/p/s/n.txt"

FileC == "/p2/c.py"

\* a path with no file behind it
FileGone == "/p/s/gone.py"

\* The components of each path, as texts.
Components ==
  (DirP :> <<<<"p">>>>)
  @@ (DirS :> <<<<"p">>, <<"s">>>>)
  @@ (DirO :> <<<<"p">>, <<"o">>>>)
  @@ (DirP2 :> <<<<"p", "2">>>>)
  @@ (FileA :> <<<<"p">>, <<"s">>, <<"a", ".", "p", "y">>>>)
  @@ (FileTestA :> <<<<"p">>, <<"s">>, <<"t", "e", "s", "t", "_", "a", ".", "p", "y">>>>)
  @@ (FileLTest :> <<<<"p">>, <<"s">>, <<"l", "_", "t", "e", "s", "t", ".", "p", "y">>>>)
  @@ (FileB :> <<<<"p">>, <<"o">>, <<"b", ".", "p", "y">>>>)
  @@ (FileU :> <<<<"p">>, <<"t", "e", "s", "t", "s">>, <<"u", ".", "p", "y">>>>)
  @@ (FileD :> <<<<"p">>, <<".", "h">>, <<"d", ".", "p", "y">>>>)
  @@ (FileN :> <<<<"p">>, <<"s">>, <<"n", ".", "t", "x", "t">>>>)
  @@ (FileC :> <<<<"p", "2">>, <<"c", ".", "p", "y">>>>)
  @@ (FileGone :> <<<<"p">>, <<"s">>, <<"g", "o", "n", "e", ".", "p", "y">>>>)

NoPath == ""

\* The files on disk, in the order a directory walk meets them.
WalkOrder == <<FileD, FileB, FileA, FileLTest, FileN, FileTestA, FileU, FileC>>

Files == Range(WalkOrder)

\* Path::to_string_lossy, as a text
RECURSIVE JoinComponents(_)
JoinComponents(components) ==
  IF components = <<>> THEN <<>>
  ELSE <<"/">> \o components[1] \o JoinComponents(Tail(components))

PathString(path) == JoinComponents(Components[path])

\* Path::starts_with: whole components
PathStartsWith(path, base) ==
  /\ Len(Components[base]) <= Len(Components[path])
  /\ SubSeq(Components[path], 1, Len(Components[base])) = Components[base]

\* Path::file_name
FileName(path) == Components[path][Len(Components[path])]

\* Path::extension: the text after the last dot of the file name, if that dot
\* is not its first character.
Extension(path) ==
  LET name == FileName(path)
      dots == {i \in 2..Len(name) : name[i] = "."}
  IN IF dots = {} THEN [some |-> FALSE, ext |-> <<>>]
     ELSE LET last == CHOOSE i \in dots : \A j \in dots : j <= i
          IN [some |-> TRUE, ext |-> SubSeq(name, last + 1, Len(name))]

IsPy(path) == Extension(path) = [some |-> TRUE, ext |-> <<"p", "y">>]

\* ------------------------------------------------------------------------
\* Arguments the entry points are called with
\* ------------------------------------------------------------------------

Roots == {DirP}

ScopeChoices == {<<>>, <<DirS>>, <<DirO>>, <<DirP>>, <<DirO, DirS>>}

\* process_coverage_data is also called with a scope beside the project root.
CoverageScopes == ScopeChoices \cup {<<DirP2>>}

TestFiles == {FileTestA, FileLTest}

\* Executed line numbers are drawn from 1..MaxLine.
MaxLine == 6

LineSets == {{}} \cup {{line} : line \in 1..MaxLine} \cup {1..MaxLine}

\* Coverage maps: FileA with any line set, any other path with its first
\* line, and FileA together with a test file.
CoverageInputs ==
  {[f \in {FileA} |-> lines] : lines \in LineSets}
  \cup {[f \in {path} |-> {1}] : path \in (Files \cup {FileGone}) \ {FileA}}
  \cup {[f \in {FileA, test} |-> IF f = FileA THEN {4} ELSE {1}] : test \in TestFiles}

\* The coverage maps the whole pipeline is run with.
CoverageSample ==
  {[f \in {FileA} |-> {4}], [f \in {FileB} |-> {1}],
   [f \in {FileA, FileC} |-> {1}]}

\* Checksum lists find_changed_checksums is called with directly: every list of
\* at most MaxLen checksums out of 1..MaxChecksum.
MaxLen == 3

MaxChecksum == 3

ChecksumLists == UNION {[1..n -> 1..MaxChecksum] : n \in 0..MaxLen}


\* ------------------------------------------------------------------------
\* State
\* ------------------------------------------------------------------------

VARIABLES
  fs,        \* the file tree: path -> [content: index into Catalogue, mtime]
  baseline,  \* the store's baseline_fingerprint table: filename -> row
  lastOp,    \* the entry point called last, with its arguments
  result,    \* what that call returned
  executions, \* save_test_execution calls so far: test_name -> fingerprints
  cache,     \* cache.rs Cache: its capacity and its two LRU maps
  collector, \* tracer.rs CoverageCollector: current_test and coverage
  history,   \* what the callers did so far (not kept by the program)
  threads    \* where each thread stands in its call on the collector

vars == <<fs, baseline, lastOp, result, executions, cache, collector, history,
          threads>>

\* The objects held in memory, which the entry points of fingerprint.rs and
\* parser.rs do not touch.
inMemory == <<executions, cache, collector, history, threads>>

\* Modification times are counted in microseconds.  0.001 s:
MtimeEpsilon == 1000

\* Clock ticks are half the epsilon, at most MaxTicks of them.
MtimeStep == MtimeEpsilon \div 2

MaxTicks == 2

\* ------------------------------------------------------------------------
\* fingerprint.rs: fingerprints
\* ------------------------------------------------------------------------

\* blake3::hash(..).to_hex(): rendered as a second polynomial hash of the bytes.
Blake3Hex(text) == HashBytes(text, 1, 7, 131, 16000057)

\* A text of the catalogue is named by its index there.
SourceId(source) == CHOOSE i \in DOMAIN Catalogue : Catalogue[i].text = source

\* parse_module's result and the file hash of every catalogue text, as tables.
ParsedSources ==
  [i \in DOMAIN Catalogue |-> parse_module_internal(Catalogue[i].text)] \o <<>>

FileHashes == [i \in DOMAIN Catalogue |-> Blake3Hex(Catalogue[i].text)] \o <<>>

parse_module(id) == ParsedSources[id]

file_hash_of(id) == FileHashes[id]

\* What a file held before the first edit.
FirstSeen(path) ==
  [content |-> IF path = FileA THEN SourceId(SrcBase.text)
               ELSE IF path = FileB THEN SourceId(SrcIfDef.text)
               ELSE IF path = FileTestA THEN SourceId(SrcTest.text)
               ELSE SourceId(SrcPlain.text),
   mtime |-> 0]

\* std::fs::read_to_string: the index of the text read
ReadToString(fsys, path) ==
  IF path \in DOMAIN fsys
  THEN [ok |-> TRUE, text |-> fsys[path].content]
  ELSE [ok |-> FALSE, text |-> 0]

Checksums(blocks) == [i \in DOMAIN blocks |-> blocks[i].checksum]

NoBlocks == [some |-> FALSE, list |-> <<>>]

SomeBlocks(blocks) == [some |-> TRUE, list |-> blocks]

FingerprintErr ==
  [ok |-> FALSE, filename |-> NoPath, checksums |-> <<>>, file_hash |-> 0,
   mtime |-> 0, blocks |-> NoBlocks]

\* calculate_fingerprint_internal once the file is read: the parse result, with
\* the hash and the mtime, makes the fingerprint.
FingerprintOf(path, parsed, file_hash, mtime) ==
  IF ~parsed.ok THEN FingerprintErr
  ELSE [ok |-> TRUE,
        filename |-> path,
        checksums |-> Checksums(parsed.blocks),
        file_hash |-> file_hash,
        mtime |-> mtime,
        blocks |-> SomeBlocks(parsed.blocks)]

\* A stale read: the fingerprint is that of the file as it was first seen.
calculate_fingerprint_stale(fsys, path) ==
  LET content == ReadToString(fsys, path) IN
  IF ~content.ok THEN FingerprintErr
  ELSE FingerprintOf(path, parse_module(FirstSeen(path).content),
                     file_hash_of(FirstSeen(path).content), FirstSeen(path).mtime)

calculate_fingerprint_internal(fsys, path) ==
  LET content == ReadToString(fsys, path) IN
  IF ~content.ok THEN FingerprintErr
  ELSE FingerprintOf(path, parse_module(content.text), file_hash_of(content.text),
                     fsys[path].mtime)

\* ------------------------------------------------------------------------
\* The store (database.rs declares the type; these two operations are the
\* ones fingerprint.rs calls)
\* ------------------------------------------------------------------------

\* Upsert of one row per fingerprint, in one transaction.
save_baseline_fingerprints_batch(db, fps) ==
  LET names == {fps[i].filename : i \in DOMAIN fps}
      Row(name) == LET fp == fps[CHOOSE i \in DOMAIN fps : fps[i].filename = name]
                   IN [checksums |-> fp.checksums, file_hash |-> fp.file_hash,
                       mtime |-> fp.mtime]
  IN [name \in (DOMAIN db) \cup names |->
        IF name \in names THEN Row(name) ELSE db[name]]

get_baseline_fingerprint_rust(db, filename) ==
  IF filename \in DOMAIN db
  THEN [some |-> TRUE, fp |-> db[filename]]
  ELSE [some |-> FALSE, fp |-> [checksums |-> <<>>, file_hash |-> 0, mtime |-> 0]]

\* ------------------------------------------------------------------------
\* fingerprint.rs: the project walk
\* ------------------------------------------------------------------------

\* The filter_entry predicate on one entry name.
WalkKeeps(name) ==
  /\ ~StartsWith(name, <<".">>)
  /\ name # <<"_", "_", "p", "y", "c", "a", "c", "h", "e", "_", "_">>
  /\ name # <<"n", "o", "d", "e", "_", "m", "o", "d", "u", "l", "e", "s">>

\* WalkDir reaches path from root: it lies under root and filter_entry keeps the
\* root entry and every entry below it on the way.
WalkReaches(root, path) ==
  /\ PathStartsWith(path, root)
  /\ \A i \in Len(Components[root])..Len(Components[path]) :
       WalkKeeps(Components[path][i])

\* The walk without the scope test.
find_python_files_unscoped(on_disk, root, scope_paths) ==
  LET Wanted(path) ==
        /\ path \in on_disk
        /\ WalkReaches(root, path)
        /\ IsPy(path)
  IN SelectSeq(WalkOrder, Wanted)

\* on_disk: the paths that are files.
find_python_files(on_disk, root, scope_paths) ==
  LET Wanted(path) ==
        /\ path \in on_disk
        /\ WalkReaches(root, path)
        /\ IsPy(path)
        /\ \E i \in DOMAIN scope_paths : PathStartsWith(path, scope_paths[i])
  IN SelectSeq(WalkOrder, Wanted)

\* find_python_files for every root and scope list, as a table.
PythonFiles ==
  [root \in Roots, scope_paths \in ScopeChoices |->
     find_python_files(Files, root, scope_paths)] @@ <<>>

\* ------------------------------------------------------------------------
\* fingerprint.rs: save_baseline
\* ------------------------------------------------------------------------

\* The fingerprints handed to the store: those of the walked files that could be
\* fingerprinted.
ValidFingerprints(fsys, root, scope_paths) ==
  LET python_files == PythonFiles[root, scope_paths]
      fingerprints == [i \in DOMAIN python_files |->
                         calculate_fingerprint_internal(fsys, python_files[i])]
      Valid(fp) == fp.ok
  IN SelectSeq(fingerprints, Valid)

\* ------------------------------------------------------------------------
\* fingerprint.rs: detect_changes
\* ------------------------------------------------------------------------

\* The symmetric difference instead: the checksums only new has are appended.
find_changed_checksums_symmetric(old_checksums, new_checksums) ==
  LET new_set == Range(new_checksums)
      old_set == Range(old_checksums)
      Gone(checksum) == checksum \notin new_set
      Added(checksum) == checksum \notin old_set
  IN SelectSeq(old_checksums, Gone) \o SelectSeq(new_checksums, Added)

find_changed_checksums(old_checksums, new_checksums) ==
  LET new_set == Range(new_checksums)
      Gone(checksum) == checksum \notin new_set
  IN SelectSeq(old_checksums, Gone)

\* tier: 0 no baseline, 1 mtime, 2 file hash, 3 checksum list, 4 changed;
\* err: the ? operator returned early.
Verdict(changed, tier, filename, checksums, err) ==
  [changed |-> changed, tier |-> tier, filename |-> filename,
   checksums |-> checksums, err |-> err]

\* Level 3 that reports a file whose current content does not parse.
CompareChecksums_parse_error_reported(filename, stored_fp, current_blocks) ==
  IF ~current_blocks.ok THEN Verdict(TRUE, 4, filename, stored_fp.checksums, FALSE)
  ELSE
    LET current_checksums == Checksums(current_blocks.blocks) IN
    IF current_checksums = stored_fp.checksums
    THEN Verdict(FALSE, 3, filename, <<>>, FALSE)
    ELSE Verdict(TRUE, 4, filename,
                 find_changed_checksums(stored_fp.checksums, current_checksums),
                 FALSE)

\* Level 3 that reports every checksum of the baseline once the lists differ.
CompareChecksums_every_old(filename, stored_fp, current_blocks) ==
  IF ~current_blocks.ok THEN Verdict(FALSE, 3, filename, <<>>, TRUE)
  ELSE
    LET current_checksums == Checksums(current_blocks.blocks) IN
    IF current_checksums = stored_fp.checksums
    THEN Verdict(FALSE, 3, filename, <<>>, FALSE)
    ELSE Verdict(TRUE, 4, filename, stored_fp.checksums, FALSE)

\* Level 3 of check_file_changed, on the parse result of the current content.
CompareChecksums(filename, stored_fp, current_blocks) ==
  IF ~current_blocks.ok THEN Verdict(FALSE, 3, filename, <<>>, TRUE)
  ELSE
    LET current_checksums == Checksums(current_blocks.blocks) IN
    IF current_checksums = stored_fp.checksums
    THEN Verdict(FALSE, 3, filename, <<>>, FALSE)
    ELSE Verdict(TRUE, 4, filename,
                 find_changed_checksums(stored_fp.checksums, current_checksums),
                 FALSE)

\* The earlier behaviour: a file without a baseline row is reported as new.
check_file_changed_untracked_new(db, fsys, path) ==
  LET filename == path
      stored == get_baseline_fingerprint_rust(db, filename)
  IN
  IF ~stored.some THEN Verdict(TRUE, 0, filename, <<>>, FALSE)
  ELSE IF path \notin DOMAIN fsys THEN Verdict(FALSE, 1, filename, <<>>, TRUE)
  ELSE
    LET stored_fp == stored.fp
        current_mtime == fsys[path].mtime
    IN
    IF Abs(current_mtime - stored_fp.mtime) < MtimeEpsilon
    THEN Verdict(FALSE, 1, filename, <<>>, FALSE)
    ELSE
      LET content == ReadToString(fsys, path)
          current_hash == file_hash_of(content.text)
      IN
      IF current_hash = stored_fp.file_hash
      THEN Verdict(FALSE, 2, filename, <<>>, FALSE)
      ELSE
        CompareChecksums(filename, stored_fp, parse_module(content.text))

\* Level 1 that trusts the mtime only when it is the stored one.
check_file_changed_same_mtime(db, fsys, path) ==
  LET filename == path
      stored == get_baseline_fingerprint_rust(db, filename)
  IN
  IF ~stored.some THEN Verdict(FALSE, 0, filename, <<>>, FALSE)
  ELSE IF path \notin DOMAIN fsys THEN Verdict(FALSE, 1, filename, <<>>, TRUE)
  ELSE
    LET stored_fp == stored.fp
        current_mtime == fsys[path].mtime
    IN
    IF current_mtime = stored_fp.mtime
    THEN Verdict(FALSE, 1, filename, <<>>, FALSE)
    ELSE
      LET content == ReadToString(fsys, path)
          current_hash == file_hash_of(content.text)
      IN
      IF current_hash = stored_fp.file_hash
      THEN Verdict(FALSE, 2, filename, <<>>, FALSE)
      ELSE
        CompareChecksums(filename, stored_fp, parse_module(content.text))

\* Tier 2 left out: a file whose mtime moved is parsed at once.
check_file_changed_without_hash(db, fsys, path) ==
  LET filename == path
      stored == get_baseline_fingerprint_rust(db, filename)
  IN
  IF ~stored.some THEN Verdict(FALSE, 0, filename, <<>>, FALSE)
  ELSE IF path \notin DOMAIN fsys THEN Verdict(FALSE, 1, filename, <<>>, TRUE)
  ELSE
    LET stored_fp == stored.fp
        current_mtime == fsys[path].mtime
    IN
    IF Abs(current_mtime - stored_fp.mtime) < MtimeEpsilon
    THEN Verdict(FALSE, 1, filename, <<>>, FALSE)
    ELSE
      LET content == ReadToString(fsys, path) IN
      CompareChecksums(filename, stored_fp, parse_module(content.text))

check_file_changed(db, fsys, path) ==
  LET filename == path
      stored == get_baseline_fingerprint_rust(db, filename)
  IN
  IF ~stored.some THEN Verdict(FALSE, 0, filename, <<>>, FALSE)
  ELSE IF path \notin DOMAIN fsys THEN Verdict(FALSE, 1, filename, <<>>, TRUE)
  ELSE
    LET stored_fp == stored.fp
        current_mtime == fsys[path].mtime
    IN
    IF Abs(current_mtime - stored_fp.mtime) < MtimeEpsilon
    THEN Verdict(FALSE, 1, filename, <<>>, FALSE)
    ELSE
      LET content == ReadToString(fsys, path)
          current_hash == file_hash_of(content.text)
      IN
      IF current_hash = stored_fp.file_hash
      THEN Verdict(FALSE, 2, filename, <<>>, FALSE)
      ELSE
        CompareChecksums(filename, stored_fp, parse_module(content.text))

\* The second half with an entry in changed_blocks for every changed file.
ChangedFiles_every_entry(changed_entries) ==
  [modified |-> [i \in DOMAIN changed_entries |-> changed_entries[i].filename],
   changed_blocks |->
     [file \in {changed_entries[i].filename : i \in DOMAIN changed_entries} |->
        changed_entries[CHOOSE i \in DOMAIN changed_entries :
                          changed_entries[i].filename = file].checksums]]

\* The second half of detect_changes_internal: modified and changed_blocks out
\* of the changed entries.
ChangedFiles(changed_entries) ==
  LET with_blocks == {i \in DOMAIN changed_entries : changed_entries[i].checksums # <<>>}
  IN [modified |-> [i \in DOMAIN changed_entries |-> changed_entries[i].filename],
      changed_blocks |->
        [file \in {changed_entries[i].filename : i \in with_blocks} |->
           changed_entries[CHOOSE i \in with_blocks :
                             changed_entries[i].filename = file].checksums]]

detect_changes_internal(db, fsys, root, scope_paths) ==
  LET python_files == PythonFiles[root, scope_paths]
      verdicts == [i \in DOMAIN python_files |->
                     check_file_changed(db, fsys, python_files[i])]
      Changed(v) == v.changed
  IN ChangedFiles(SelectSeq(verdicts, Changed))

\* ------------------------------------------------------------------------
\* fingerprint.rs: process_coverage_data
\* ------------------------------------------------------------------------

\* The admission test without the rule on other test files.
should_process_file_any_test(filepath, project_root, test_file, scope_paths) ==
  LET path_str == PathString(filepath)
      in_scope == \E i \in DOMAIN scope_paths : PathStartsWith(filepath, scope_paths[i])
  IN
  IF ~IsPy(filepath) THEN FALSE
  ELSE IF ~StartsWith(path_str, PathString(project_root)) THEN FALSE
  ELSE IF ~in_scope THEN FALSE
  ELSE TRUE

\* The admission test with no exception for the current test file.
should_process_file_no_current(filepath, project_root, test_file, scope_paths) ==
  LET path_str == PathString(filepath)
      in_scope == \E i \in DOMAIN scope_paths : PathStartsWith(filepath, scope_paths[i])
      is_test_file ==
        \/ Contains(path_str, <<"/", "t", "e", "s", "t", "s", "/">>)
        \/ EndsWith(path_str, <<"_", "t", "e", "s", "t", ".", "p", "y">>)
        \/ StartsWith(FileName(filepath), <<"t", "e", "s", "t", "_">>)
  IN
  IF ~IsPy(filepath) THEN FALSE
  ELSE IF ~StartsWith(path_str, PathString(project_root)) THEN FALSE
  ELSE IF ~in_scope THEN FALSE
  ELSE IF is_test_file THEN FALSE
  ELSE TRUE

should_process_file(filepath, project_root, test_file, scope_paths) ==
  LET path_str == PathString(filepath)
      in_scope == \E i \in DOMAIN scope_paths : PathStartsWith(filepath, scope_paths[i])
      is_test_file ==
        \/ Contains(path_str, <<"/", "t", "e", "s", "t", "s", "/">>)
        \/ EndsWith(path_str, <<"_", "t", "e", "s", "t", ".", "p", "y">>)
        \/ StartsWith(FileName(filepath), <<"t", "e", "s", "t", "_">>)
      is_current_test_file == filepath = test_file
  IN
  IF ~IsPy(filepath) THEN FALSE
  ELSE IF ~StartsWith(path_str, PathString(project_root)) THEN FALSE
  ELSE IF ~in_scope THEN FALSE
  ELSE IF is_test_file /\ ~is_current_test_file THEN FALSE
  ELSE TRUE

\* should_process_file for every path and argument list, as a table.
ShouldProcess ==
  [filepath \in Files \cup {FileGone}, project_root \in Roots,
   test_file \in TestFiles, scope_paths \in CoverageScopes |->
     should_process_file(filepath, project_root, test_file, scope_paths)] @@ <<>>

filter_executed_blocks_rust(blocks, executed_lines) ==
  LET Executed(block) ==
        \E line \in block.start_line..block.end_line : line \in executed_lines
  IN SelectSeq(blocks, Executed)

\* Steps 3 and 4 of the closure, on the fingerprint of the file.
ReducedFingerprint(fp, executed_lines) ==
  IF ~fp.ok THEN [some |-> FALSE, fp |-> FingerprintErr]
  ELSE IF ~fp.blocks.some THEN [some |-> TRUE, fp |-> fp]
  ELSE
    LET executed_blocks == filter_executed_blocks_rust(fp.blocks.list, executed_lines) IN
    IF executed_blocks = <<>> THEN [some |-> FALSE, fp |-> FingerprintErr]
    ELSE [some |-> TRUE,
          fp |-> [fp EXCEPT !.checksums = Checksums(executed_blocks),
                            !.blocks = NoBlocks]]

\* The closure run for one coverage entry: None or Some(fingerprint).
ProcessEntry(fsys, filename, executed_lines, project_root, test_file, scope_paths) ==
  IF ~ShouldProcess[filename, project_root, test_file, scope_paths]
  THEN [some |-> FALSE, fp |-> FingerprintErr]
  ELSE ReducedFingerprint(calculate_fingerprint_internal(fsys, filename), executed_lines)

\* The returned list has the order of a hash map's iteration; it is kept as the
\* set of its elements.
process_coverage_data_internal(fsys, coverage_data, project_root, test_file, scope_paths) ==
  LET entries == {ProcessEntry(fsys, filename, coverage_data[filename],
                               project_root, test_file, scope_paths) :
                    filename \in DOMAIN coverage_data}
  IN {entry.fp : entry \in {e \in entries : e.some}}


\* ------------------------------------------------------------------------
\* cache.rs: Cache, two LRU maps of one capacity
\* ------------------------------------------------------------------------

\* Option<T>: None is the empty sequence, Some(value) is <<value>>.
None == <<>>

Some(value) == <<value>>

\* Cache::new
DefaultCapacity == 10000

\* LruCache::new(cap): no entry.  A map is the sequence of its entries from the
\* least recently used to the most recently used.
LruCache_new == <<>>

\* Cache::with_capacity: a max_size of 0 gives capacity 1.
Cache_with_capacity(max_size) ==
  [cap |-> IF max_size = 0 THEN 1 ELSE max_size,
   fingerprints |-> LruCache_new,
   test_mappings |-> LruCache_new]

Cache_new == Cache_with_capacity(DefaultCapacity)

LruKeys(map) == {map[i].key : i \in DOMAIN map}

LruIndex(map, key) == CHOOSE i \in DOMAIN map : map[i].key = key

\* The sequence without its i-th element.
Without(seq, i) == SubSeq(seq, 1, i - 1) \o SubSeq(seq, i + 1, Len(seq))

\* LruCache::peek: the value, the order left as it is.
LruCache_peek(map, key) ==
  IF key \in LruKeys(map)
  THEN [map |-> map, value |-> Some(map[LruIndex(map, key)].value)]
  ELSE [map |-> map, value |-> None]

\* LruCache::get: the entry found becomes the most recently used.
LruCache_get(map, key) ==
  IF key \in LruKeys(map)
  THEN LET i == LruIndex(map, key) IN
       [map |-> Append(Without(map, i), map[i]), value |-> Some(map[i].value)]
  ELSE [map |-> map, value |-> None]

\* LruCache::put that never evicts.
LruCache_put_unbounded(map, cap, key, value) ==
  LET entry == [key |-> key, value |-> value] IN
  IF key \in LruKeys(map) THEN Append(Without(map, LruIndex(map, key)), entry)
  ELSE Append(map, entry)

\* LruCache::put: a known key gets the value and becomes the most recently
\* used; a new key takes the place of the least recently used entry when the
\* map holds cap entries.
LruCache_put(map, cap, key, value) ==
  LET entry == [key |-> key, value |-> value] IN
  IF key \in LruKeys(map) THEN Append(Without(map, LruIndex(map, key)), entry)
  ELSE IF Len(map) = cap THEN Append(Tail(map), entry)
  ELSE Append(map, entry)

get_fingerprint(c, path) ==
  LET got == LruCache_get(c.fingerprints, path) IN
  [cache |-> [c EXCEPT !.fingerprints = got.map], value |-> got.value]

insert_fingerprint(c, path, fp) ==
  [c EXCEPT !.fingerprints = LruCache_put(@, c.cap, path, fp)]

get_test_mapping(c, test_name) ==
  LET got == LruCache_get(c.test_mappings, test_name) IN
  [cache |-> [c EXCEPT !.test_mappings = got.map], value |-> got.value]

insert_test_mapping(c, test_name, checksums) ==
  [c EXCEPT !.test_mappings = LruCache_put(@, c.cap, test_name, checksums)]

Cache_clear(c) ==
  [c EXCEPT !.fingerprints = LruCache_new, !.test_mappings = LruCache_new]

\* ------------------------------------------------------------------------
\* tracer.rs: CoverageCollector
\* ------------------------------------------------------------------------

CoverageCollector_new == [current_test |-> None, coverage |-> <<>>]

\* HashMap::entry(key).or_default(): the value under key, or the default.
OrDefault(map, key, default) == IF key \in DOMAIN map THEN map[key] ELSE default

\* HashMap insert: map with key bound to value.
Insert(map, key, value) ==
  [k \in DOMAIN map \cup {key} |-> IF k = key THEN value ELSE map[k]]

\* HashMap::remove: map without key.
Remove(map, key) == [k \in DOMAIN map \ {key} |-> map[k]]

start_test(c, test_name) == [c EXCEPT !.current_test = Some(test_name)]

\* Without a current test the line is dropped.
record_line(c, filename, line_no) ==
  IF c.current_test = None THEN c
  ELSE LET test_name == c.current_test[1]
           files == OrDefault(c.coverage, test_name, <<>>)
           lines == OrDefault(files, filename, {})
       IN [c EXCEPT !.coverage =
             Insert(@, test_name, Insert(files, filename, lines \cup {line_no}))]

\* The elements of a HashSet collected in the order the set hands them out,
\* here from the greatest down: the list before sort_unstable.
RECURSIVE Collected(_)
Collected(lines) ==
  IF lines = {} THEN <<>>
  ELSE LET top == CHOOSE l \in lines : \A other \in lines : other <= l
       IN <<top>> \o Collected(lines \ {top})

\* Vec::sort_unstable on a list without duplicates.
RECURSIVE sort_unstable(_)
sort_unstable(lines_vec) ==
  IF lines_vec = <<>> THEN <<>>
  ELSE LET least == CHOOSE i \in DOMAIN lines_vec :
                      \A j \in DOMAIN lines_vec : lines_vec[i] <= lines_vec[j]
       IN <<lines_vec[least]>> \o sort_unstable(Without(lines_vec, least))

NoTestRunning == "No test currently running"

Ok(value) == [ok |-> TRUE, value |-> value, err |-> ""]

Err(message) == [ok |-> FALSE, value |-> <<>>, err |-> message]

\* finish_test that answers an empty map when no test is running.
finish_test_lenient(c) ==
  IF c.current_test = None THEN [collector |-> c, value |-> Ok(<<>>)]
  ELSE LET test_name == c.current_test[1]
           test_coverage == OrDefault(c.coverage, test_name, <<>>)
       IN [collector |-> [current_test |-> None,
                          coverage |-> Remove(c.coverage, test_name)],
           value |-> Ok([file \in DOMAIN test_coverage |->
                           sort_unstable(Collected(test_coverage[file]))])]

\* finish_test that hands the lines out as collected.
finish_test_unsorted(c) ==
  IF c.current_test = None THEN [collector |-> c, value |-> Err(NoTestRunning)]
  ELSE LET test_name == c.current_test[1]
           test_coverage == OrDefault(c.coverage, test_name, <<>>)
       IN [collector |-> [current_test |-> None,
                          coverage |-> Remove(c.coverage, test_name)],
           value |-> Ok([file \in DOMAIN test_coverage |->
                           Collected(test_coverage[file])])]

\* current.take() leaves None behind; on None the call returns before it
\* reaches the coverage map.
finish_test(c) ==
  IF c.current_test = None THEN [collector |-> c, value |-> Err(NoTestRunning)]
  ELSE LET test_name == c.current_test[1]
           test_coverage == OrDefault(c.coverage, test_name, <<>>)
       IN [collector |-> [current_test |-> None,
                          coverage |-> Remove(c.coverage, test_name)],
           value |-> Ok([file \in DOMAIN test_coverage |->
                           sort_unstable(Collected(test_coverage[file]))])]

CoverageCollector_clear(c) == [current_test |-> None, coverage |-> <<>>]

\* ------------------------------------------------------------------------
\* database.rs: TestmonDatabase
\* ------------------------------------------------------------------------

\* save_test_execution keeps nothing of its arguments and returns Ok(()).
save_test_execution(test_name, fingerprints) == [ok |-> TRUE]

\* get_affected_tests returns Ok(vec![]) whatever it is asked.
get_affected_tests(changed_blocks) == <<>>

\* ------------------------------------------------------------------------
\* fingerprint.rs with a cache: process_coverage_data(.., cache = Some(c))
\* ------------------------------------------------------------------------

\* FingerprintCache::get_or_calculate_internal: the copy held for the path if
\* there is one, otherwise the fingerprint of the file (calculated: what
\* calculate_fingerprint_internal returns for it), which is then kept.
\* touch is the kind of call that hit the key, or None.
get_or_calculate_internal(c, filename, calculated) ==
  LET got == get_fingerprint(c, filename) IN
  IF got.value # None
  THEN [cache |-> got.cache, fp |-> got.value[1], touch |-> Some("get")]
  ELSE IF calculated.ok
  THEN [cache |-> insert_fingerprint(got.cache, filename, calculated),
        fp |-> calculated, touch |-> Some("insert")]
  ELSE [cache |-> got.cache, fp |-> calculated, touch |-> None]

\* The orders in which the workers may take the entries of a map.
Orders(keys) ==
  {order \in [1..Cardinality(keys) -> keys] :
     \A i, j \in DOMAIN order : i # j => order[i] # order[j]}

\* One run of the closure with cache = Some(c): acc holds the cache, the
\* fingerprints returned and the keys hit so far.
ProcessEntryCached(acc, filename, executed_lines, admitted, calculated) ==
  LET looked == get_or_calculate_internal(acc.cache, filename, calculated)
      entry == ReducedFingerprint(looked.fp, executed_lines)
  IN IF ~admitted THEN acc
     ELSE [cache |-> looked.cache,
           fingerprints |-> IF entry.some THEN acc.fingerprints \cup {entry.fp}
                            ELSE acc.fingerprints,
           touches |-> IF looked.touch = None THEN acc.touches
                       ELSE Append(acc.touches,
                                   [key |-> filename, by |-> looked.touch[1]])]

\* The runs of the closure in the given order, on the table of its inputs.
RECURSIVE ProcessCached(_, _, _)
ProcessCached(acc, order, inputs) ==
  IF order = <<>> THEN acc
  ELSE LET input == inputs[Head(order)] IN
       ProcessCached(ProcessEntryCached(acc, Head(order), input.executed_lines,
                                        input.admitted, input.calculated),
                     Tail(order), inputs)

process_coverage_data_cached(c, fsys, order, coverage_data, project_root, test_file, scope_paths) ==
  LET inputs ==
        [filename \in DOMAIN coverage_data |->
           [executed_lines |-> coverage_data[filename],
            admitted |-> ShouldProcess[filename, project_root, test_file, scope_paths],
            calculated |-> calculate_fingerprint_internal(fsys, filename)]]
  IN ProcessCached([cache |-> c, fingerprints |-> {}, touches |-> <<>>], order, inputs)

\* ------------------------------------------------------------------------
\* tracer.rs: the two mutexes of a CoverageCollector, taken by threads
\* ------------------------------------------------------------------------

Threads == {1, 2}

\* The thread is in no call.
Idle == [pc |-> "idle", test_name |-> "", filename |-> "", line_no |-> 0]

NoCalls == [t \in Threads |-> Idle]

\* The guard of self.current_test is held from its lock() to the end of the
\* method: by record_line and finish_test while they go for self.coverage.
HoldsCurrentTest(calls, t) == calls[t].pc \in {"record_line_locked", "finish_test_taken"}

\* The guard of self.coverage is held by clear while it goes for
\* self.current_test.
HoldsCoverage(calls, t) == calls[t].pc = "clear_cleared"

\* Mutex::lock() returns once no other thread holds the guard.
CurrentTestFree(calls, t) == \A u \in Threads \ {t} : ~HoldsCurrentTest(calls, u)

CoverageFree(calls, t) == \A u \in Threads \ {t} : ~HoldsCoverage(calls, u)

\* ------------------------------------------------------------------------
\* Inputs
\* ------------------------------------------------------------------------

\* The contents FileA is rewritten with.
EditableSources ==
  {SourceId(s.text) : s \in {SrcBase, SrcBodyEdit, SrcComment, SrcBroken,
                             SrcIfDef, SrcIfDefEdit, SrcReorder, SrcTwin,
                             SrcTwinEdit}}

Editable == {FileA}

\* ------------------------------------------------------------------------
\* Actions
\* ------------------------------------------------------------------------

NoOp ==
  [op |-> "none", root |-> NoPath, scope_paths |-> <<>>, test_file |-> NoPath,
   coverage_data |-> <<>>, args |-> <<>>, streak |-> 0]

NoResult ==
  [count |-> 0, saved |-> {}, modified |-> <<>>, changed_blocks |-> <<>>,
   fingerprints |-> {}, value |-> <<>>]

InitialFs == [path \in Files |-> FirstSeen(path)]

\* Nothing was called yet.  touched lists, for each map of the cache, the keys
\* in the order of their last hit by a get or insert since the last clear,
\* with the kind of that call; requested is the capacity the cache was asked
\* for; recorded, since_start and ended follow the calls on the coverage
\* collector.
NoHistory ==
  [touched |-> [fingerprints |-> <<>>, test_mappings |-> <<>>],
   requested |-> DefaultCapacity,
   recorded |-> <<>>, since_start |-> {}, ended |-> "never"]

\* No test execution saved, Cache::new(), CoverageCollector::new().
InitInMemory ==
  /\ executions = <<>>
  /\ cache = Cache_new
  /\ collector = CoverageCollector_new
  /\ history = NoHistory
  /\ threads = NoCalls

Init ==
  /\ fs = InitialFs
  /\ baseline = <<>>
  /\ InitInMemory
  /\ lastOp = NoOp
  /\ result = NoResult

\* An editor rewrites a file; the clock has moved by dt ticks.
WriteFile(path, content, dt) ==
  /\ content # fs[path].content
  /\ fs[path].mtime + dt * MtimeStep <= MaxTicks * MtimeStep
  /\ fs' = [fs EXCEPT ![path] = [content |-> content,
                                 mtime |-> @.mtime + dt * MtimeStep]]
  /\ lastOp' = NoOp
  /\ result' = NoResult
  /\ UNCHANGED <<baseline, inMemory>>

\* touch: the modification time moves, the bytes stay.
TouchFile(path, dt) ==
  /\ fs[path].mtime + dt * MtimeStep <= MaxTicks * MtimeStep
  /\ fs' = [fs EXCEPT ![path].mtime = @ + dt * MtimeStep]
  /\ lastOp' = NoOp
  /\ result' = NoResult
  /\ UNCHANGED <<baseline, inMemory>>

SameCall(op, root, scope_paths) ==
  /\ lastOp.op = op
  /\ lastOp.root = root
  /\ lastOp.scope_paths = scope_paths

\* The store takes the fingerprints; the call returns their number.
Saved(valid_fingerprints) ==
  /\ baseline' = save_baseline_fingerprints_batch(baseline, valid_fingerprints)
  /\ result' = [NoResult EXCEPT
                  !.count = Len(valid_fingerprints),
                  !.saved = {valid_fingerprints[i].filename : i \in DOMAIN valid_fingerprints}]

\* streak counts the save_baseline calls made in a row with these arguments.
SaveBaseline(root, scope_paths) ==
  /\ Saved(ValidFingerprints(fs, root, scope_paths))
  /\ lastOp' = [NoOp EXCEPT !.op = "save_baseline", !.root = root,
                            !.scope_paths = scope_paths,
                            !.streak = IF SameCall("save_baseline", root, scope_paths)
                                       THEN Min(lastOp.streak + 1, 2) ELSE 1]
  /\ UNCHANGED <<fs, inMemory>>

Detected(changes) ==
  result' = [NoResult EXCEPT !.modified = changes.modified,
                             !.changed_blocks = changes.changed_blocks]

\* streak keeps the count of the save_baseline calls right before this call.
DetectChanges(root, scope_paths) ==
  /\ Detected(detect_changes_internal(baseline, fs, root, scope_paths))
  /\ lastOp' = [NoOp EXCEPT !.op = "detect_changes", !.root = root,
                            !.scope_paths = scope_paths,
                            !.streak = IF SameCall("save_baseline", root, scope_paths)
                                       THEN lastOp.streak ELSE 0]
  /\ UNCHANGED <<fs, baseline, inMemory>>

ProcessCoverage(coverage_data, root, test_file, scope_paths) ==
  /\ lastOp' = [NoOp EXCEPT !.op = "process_coverage_data", !.root = root,
                            !.scope_paths = scope_paths, !.test_file = test_file,
                            !.coverage_data = coverage_data]
  /\ result' = [NoResult EXCEPT !.fingerprints =
                  process_coverage_data_internal(fs, coverage_data, root, test_file,
                                                 scope_paths)]
  /\ UNCHANGED <<fs, baseline, inMemory>>

Next ==
  \/ \E path \in Editable, content \in EditableSources, dt \in 0..2 :
       WriteFile(path, content, dt)
  \/ \E path \in Editable, dt \in 1..2 : TouchFile(path, dt)
  \/ \E root \in Roots, scope_paths \in ScopeChoices : SaveBaseline(root, scope_paths)
  \/ \E root \in Roots, scope_paths \in ScopeChoices : DetectChanges(root, scope_paths)
  \/ \E coverage_data \in CoverageSample, root \in Roots, scope_paths \in ScopeChoices :
       ProcessCoverage(coverage_data, root, FileTestA, scope_paths)

Spec == Init /\ [][Next]_vars

\* The coverage filter alone, over every coverage map and test file.
NextCoverage ==
  \/ \E path \in Editable, content \in EditableSources, dt \in 0..2 :
       WriteFile(path, content, dt)
  \/ \E coverage_data \in CoverageInputs, root \in Roots, test_file \in TestFiles,
        scope_paths \in CoverageScopes :
       ProcessCoverage(coverage_data, root, test_file, scope_paths)

SpecCoverage == Init /\ [][NextCoverage]_vars

\* ------------------------------------------------------------------------
\* Direct calls of the pure functions: the arguments are drawn in the
\* initial state, the action applies the function to them.
\* ------------------------------------------------------------------------

Args(a, b) == [NoOp EXCEPT !.op = "args", !.args = <<a, b>>]

\* parse_module on the two texts of a pair.
ParseModule ==
  /\ lastOp.op = "args"
  /\ lastOp.args[1] \in DOMAIN Catalogue
  /\ lastOp' = [lastOp EXCEPT !.op = "parse_module"]
  /\ result' = [NoResult EXCEPT !.value = <<parse_module(lastOp.args[1]),
                                            parse_module(lastOp.args[2])>>]
  /\ UNCHANGED <<fs, baseline, inMemory>>

InitParse ==
  /\ fs = InitialFs
  /\ baseline = <<>>
  /\ InitInMemory
  /\ lastOp \in {Args(a, b) : a \in DOMAIN Catalogue, b \in DOMAIN Catalogue}
  /\ result = NoResult

SpecParse == InitParse /\ [][ParseModule]_vars

FindChangedChecksums ==
  /\ lastOp.op = "args"
  /\ lastOp.args[1] \in ChecksumLists
  /\ lastOp' = [lastOp EXCEPT !.op = "find_changed_checksums"]
  /\ result' = [NoResult EXCEPT !.value =
                  find_changed_checksums(lastOp.args[1], lastOp.args[2])]
  /\ UNCHANGED <<fs, baseline, inMemory>>

\* find_changed_checksums called directly, and called by detect_changes.
InitDiff ==
  /\ fs = InitialFs
  /\ baseline = <<>>
  /\ InitInMemory
  /\ lastOp \in {NoOp} \cup {Args(old, new) : old \in ChecksumLists, new \in ChecksumLists}
  /\ result = NoResult

\* A direct call is a run of its own: the entry points run from the state that
\* holds no arguments.
NextDiff ==
  \/ FindChangedChecksums
  \/ lastOp.args = <<>> /\ Next

SpecDiff == InitDiff /\ [][NextDiff]_vars

\* ------------------------------------------------------------------------
\* database.rs: the test executions
\* ------------------------------------------------------------------------

TestNames == {"T1", "T2"}

\* The fingerprint a test run leaves for a file: the checksums of the blocks
\* it executed.
TestFingerprint(filename, checksums) ==
  [FingerprintErr EXCEPT !.ok = TRUE, !.filename = filename,
                         !.checksums = checksums]

FingerprintLists ==
  {<<TestFingerprint(filename, checksums)>> :
     filename \in {FileA, FileB}, checksums \in {<<1>>, <<2>>, <<1, 2>>}}

ChangedBlocksInputs ==
  {[f \in {filename} |-> checksums] :
     filename \in {FileA, FileB}, checksums \in {<<1>>, <<2>>}}
  \cup {[f \in {FileA, FileB} |-> <<2>>]}

\* executions keeps what the caller handed over, the last call of each test.
SaveTestExecution(test_name, fingerprints) ==
  /\ executions' = [t \in DOMAIN executions \cup {test_name} |->
                      IF t = test_name THEN fingerprints ELSE executions[t]]
  /\ lastOp' = [NoOp EXCEPT !.op = "save_test_execution",
                            !.args = <<test_name, fingerprints>>]
  /\ result' = [NoResult EXCEPT !.value = save_test_execution(test_name, fingerprints)]
  /\ UNCHANGED <<fs, baseline, cache, collector, history, threads>>

GetAffectedTests(changed_blocks) ==
  /\ lastOp' = [NoOp EXCEPT !.op = "get_affected_tests", !.args = <<changed_blocks>>]
  /\ result' = [NoResult EXCEPT !.value = get_affected_tests(changed_blocks)]
  /\ UNCHANGED <<fs, baseline, inMemory>>

NextDatabase ==
  \/ \E test_name \in TestNames, fingerprints \in FingerprintLists :
       SaveTestExecution(test_name, fingerprints)
  \/ \E changed_blocks \in ChangedBlocksInputs : GetAffectedTests(changed_blocks)

SpecDatabase == Init /\ [][NextDatabase]_vars

\* ------------------------------------------------------------------------
\* cache.rs: the calls on a Cache
\* ------------------------------------------------------------------------

\* Cache::with_capacity is called with 0..MaxCapacity.
MaxCapacity == 2

CachePaths == {FileA, FileB, FileC}

CacheFingerprints(path) ==
  IF path = FileA THEN {TestFingerprint(path, <<1>>), TestFingerprint(path, <<2>>)}
  ELSE {TestFingerprint(path, <<1>>)}

CacheTests == {"T1", "T2", "T3"}

\* The key was hit by a call of that kind: it is the last of the list now.
Touch(touched, key, kind) ==
  LET Other(e) == e.key # key IN
  Append(SelectSeq(touched, Other), [key |-> key, by |-> kind])

GetFingerprint(path) ==
  LET got == get_fingerprint(cache, path) IN
  /\ cache' = got.cache
  /\ lastOp' = [NoOp EXCEPT !.op = "get_fingerprint", !.args = <<path>>]
  /\ result' = [NoResult EXCEPT !.value = got.value]
  /\ history' = IF got.value = None THEN history
                ELSE [history EXCEPT !.touched.fingerprints = Touch(@, path, "get")]
  /\ UNCHANGED <<fs, baseline, executions, collector, threads>>

InsertFingerprint(path, fp) ==
  /\ cache' = insert_fingerprint(cache, path, fp)
  /\ lastOp' = [NoOp EXCEPT !.op = "insert_fingerprint", !.args = <<path, fp>>]
  /\ result' = NoResult
  /\ history' = [history EXCEPT !.touched.fingerprints = Touch(@, path, "insert")]
  /\ UNCHANGED <<fs, baseline, executions, collector, threads>>

GetTestMapping(test_name) ==
  LET got == get_test_mapping(cache, test_name) IN
  /\ cache' = got.cache
  /\ lastOp' = [NoOp EXCEPT !.op = "get_test_mapping", !.args = <<test_name>>]
  /\ result' = [NoResult EXCEPT !.value = got.value]
  /\ history' = IF got.value = None THEN history
                ELSE [history EXCEPT !.touched.test_mappings = Touch(@, test_name, "get")]
  /\ UNCHANGED <<fs, baseline, executions, collector, threads>>

InsertTestMapping(test_name, checksums) ==
  /\ cache' = insert_test_mapping(cache, test_name, checksums)
  /\ lastOp' = [NoOp EXCEPT !.op = "insert_test_mapping",
                            !.args = <<test_name, checksums>>]
  /\ result' = NoResult
  /\ history' = [history EXCEPT !.touched.test_mappings = Touch(@, test_name, "insert")]
  /\ UNCHANGED <<fs, baseline, executions, collector, threads>>

CacheClear ==
  /\ cache' = Cache_clear(cache)
  /\ lastOp' = [NoOp EXCEPT !.op = "clear"]
  /\ result' = NoResult
  /\ history' = [history EXCEPT !.touched = NoHistory.touched]
  /\ UNCHANGED <<fs, baseline, executions, collector, threads>>

InitCache ==
  /\ fs = InitialFs
  /\ baseline = <<>>
  /\ lastOp = NoOp
  /\ result = NoResult
  /\ executions = <<>>
  /\ \E max_size \in 0..MaxCapacity :
       /\ cache = Cache_with_capacity(max_size)
       /\ history = [NoHistory EXCEPT !.requested = max_size]
  /\ collector = CoverageCollector_new
  /\ threads = NoCalls

NextCache ==
  \/ \E path \in CachePaths : GetFingerprint(path)
  \/ \E path \in CachePaths : \E fp \in CacheFingerprints(path) :
       InsertFingerprint(path, fp)
  \/ \E test_name \in CacheTests : GetTestMapping(test_name)
  \/ \E test_name \in CacheTests : InsertTestMapping(test_name, <<1>>)
  \/ CacheClear

SpecCache == InitCache /\ [][NextCache]_vars

\* ------------------------------------------------------------------------
\* tracer.rs: the calls on a CoverageCollector
\* ------------------------------------------------------------------------

TracedFiles == {FileA, FileB}

TracedLines == {10, 11}

\* history.recorded holds, for each test, the (filename, line_no) pairs handed
\* to record_line while it was the current test, since it was last finished or
\* cleared; history.since_start holds the pairs handed to record_line since
\* the last start_test; history.ended tells how the last test came to its end.
StartTest(test_name) ==
  /\ collector' = start_test(collector, test_name)
  /\ lastOp' = [NoOp EXCEPT !.op = "start_test", !.args = <<test_name>>]
  /\ result' = NoResult
  /\ history' = [history EXCEPT !.ended = "running", !.since_start = {}]
  /\ UNCHANGED <<fs, baseline, executions, cache, threads>>

RecordLine(filename, line_no) ==
  /\ collector' = record_line(collector, filename, line_no)
  /\ lastOp' = [NoOp EXCEPT !.op = "record_line", !.args = <<filename, line_no>>]
  /\ result' = NoResult
  /\ history' =
       IF collector.current_test = None THEN history
       ELSE [history EXCEPT !.recorded =
               Insert(@, collector.current_test[1],
                      OrDefault(@, collector.current_test[1], {})
                        \cup {<<filename, line_no>>}),
                            !.since_start = @ \cup {<<filename, line_no>>}]
  /\ UNCHANGED <<fs, baseline, executions, cache, threads>>

FinishTest ==
  LET finished == finish_test(collector) IN
  /\ collector' = finished.collector
  /\ lastOp' = [NoOp EXCEPT !.op = "finish_test"]
  /\ result' = [NoResult EXCEPT !.value = finished.value]
  /\ history' =
       IF collector.current_test = None THEN history
       ELSE [history EXCEPT !.recorded = Remove(@, collector.current_test[1]),
                            !.since_start = {}, !.ended = "finished"]
  /\ UNCHANGED <<fs, baseline, executions, cache, threads>>

CollectorClear ==
  /\ collector' = CoverageCollector_clear(collector)
  /\ lastOp' = [NoOp EXCEPT !.op = "clear"]
  /\ result' = NoResult
  /\ history' = [history EXCEPT !.recorded = <<>>, !.since_start = {},
                                !.ended = "cleared"]
  /\ UNCHANGED <<fs, baseline, executions, cache, threads>>

NextTracer ==
  \/ \E test_name \in TestNames : StartTest(test_name)
  \/ \E filename \in TracedFiles, line_no \in TracedLines : RecordLine(filename, line_no)
  \/ FinishTest
  \/ CollectorClear

SpecTracer == Init /\ [][NextTracer]_vars

\* ------------------------------------------------------------------------
\* fingerprint.rs: the entry points when the store or the file system fails
\* ------------------------------------------------------------------------

\* What fails during a call: the store ("open": TestmonDatabase::open,
\* "batch": save_baseline_fingerprints_batch), the directories that cannot be
\* listed, the files that cannot be read or stat'ed.
Faults ==
  [store : {"none", "open", "batch"},
   denied : {{}, {DirP}, {DirO}},
   unreadable : {{}, {FileA}, {FileB}}]

FaultScopes == {<<DirP>>, <<DirS>>}

FaultSources == {SourceId(s.text) : s \in {SrcBase, SrcBodyEdit, SrcBroken}}

\* The file tree as the call sees it.
Readable(fsys, unreadable) == [path \in DOMAIN fsys \ unreadable |-> fsys[path]]

\* WalkDir yields an Err entry for a directory it cannot list, and the loop of
\* find_python_files returns it (entry?): the root or any directory the walk
\* reaches.
WalkFails(root, denied) == \E dir \in denied : WalkReaches(root, dir)

\* What stops the whole of save_baseline, if anything.
SaveBaselineError(faults, root) ==
  IF faults.store = "open" THEN Err("StoreError")
  ELSE IF WalkFails(root, faults.denied) THEN Err("IoError")
  ELSE IF faults.store = "batch" THEN Err("StoreError")
  ELSE Ok(<<>>)

\* What stops the whole of detect_changes, if anything.
DetectChangesError(faults, root) ==
  IF faults.store = "open" THEN Err("StoreError")
  ELSE IF WalkFails(root, faults.denied) THEN Err("IoError")
  ELSE Ok(<<>>)

Failed(error) ==
  /\ result' = [NoResult EXCEPT !.value = error]
  /\ UNCHANGED baseline

SaveBaselineFaulty(root, scope_paths, faults) ==
  /\ IF SaveBaselineError(faults, root).ok
     THEN Saved(ValidFingerprints(Readable(fs, faults.unreadable), root, scope_paths))
     ELSE Failed(SaveBaselineError(faults, root))
  /\ lastOp' = [NoOp EXCEPT !.op = "save_baseline", !.root = root,
                            !.scope_paths = scope_paths, !.args = <<faults>>]
  /\ UNCHANGED <<fs, inMemory>>

DetectChangesFaulty(root, scope_paths, faults) ==
  /\ IF DetectChangesError(faults, root).ok
     THEN Detected(detect_changes_internal(baseline, Readable(fs, faults.unreadable),
                                           root, scope_paths))
     ELSE result' = [NoResult EXCEPT !.value = DetectChangesError(faults, root)]
  /\ lastOp' = [NoOp EXCEPT !.op = "detect_changes", !.root = root,
                            !.scope_paths = scope_paths, !.args = <<faults>>]
  /\ UNCHANGED <<fs, baseline, inMemory>>

NextFaults ==
  \/ \E content \in FaultSources : WriteFile(FileA, content, 1)
  \/ \E root \in Roots, scope_paths \in FaultScopes, faults \in Faults :
       SaveBaselineFaulty(root, scope_paths, faults)
  \/ \E root \in Roots, scope_paths \in FaultScopes, faults \in Faults :
       DetectChangesFaulty(root, scope_paths, faults)
  \/ \E coverage_data \in CoverageSample, root \in Roots, scope_paths \in FaultScopes :
       ProcessCoverage(coverage_data, root, FileTestA, scope_paths)

SpecFaults == Init /\ [][NextFaults]_vars

\* ------------------------------------------------------------------------
\* process_coverage_data with a cache, between edits of the files
\* ------------------------------------------------------------------------

\* The coverage maps of the cached runs: one file, or two admitted files.
CachedCoverage ==
  {[f \in {FileA} |-> {4}], [f \in {FileB} |-> {1}],
   [f \in {FileA, FileB} |-> 1..MaxLine], [f \in {FileA, FileC} |-> {1}]}

RECURSIVE TouchAll(_, _)
TouchAll(touched, touches) ==
  IF touches = <<>> THEN touched
  ELSE TouchAll(Touch(touched, Head(touches).key, Head(touches).by), Tail(touches))

\* args tells that the call was given the cache.
ProcessCoverageCached(coverage_data, order, root, test_file, scope_paths) ==
  LET done == process_coverage_data_cached(cache, fs, order, coverage_data, root,
                                           test_file, scope_paths) IN
  /\ cache' = done.cache
  /\ lastOp' = [NoOp EXCEPT !.op = "process_coverage_data", !.root = root,
                            !.scope_paths = scope_paths, !.test_file = test_file,
                            !.coverage_data = coverage_data, !.args = <<"cache">>]
  /\ result' = [NoResult EXCEPT !.fingerprints = done.fingerprints]
  /\ history' = [history EXCEPT !.touched.fingerprints = TouchAll(@, done.touches)]
  /\ UNCHANGED <<fs, baseline, executions, collector, threads>>

\* The cache is built by with_capacity(1..MaxCapacity).
InitCached ==
  /\ fs = InitialFs
  /\ baseline = <<>>
  /\ lastOp = NoOp
  /\ result = NoResult
  /\ executions = <<>>
  /\ \E max_size \in 1..MaxCapacity :
       /\ cache = Cache_with_capacity(max_size)
       /\ history = [NoHistory EXCEPT !.requested = max_size]
  /\ collector = CoverageCollector_new
  /\ threads = NoCalls

NextCached ==
  \/ \E path \in Editable, content \in EditableSources, dt \in 0..2 :
       WriteFile(path, content, dt)
  \/ \E coverage_data \in CachedCoverage, root \in Roots :
       \E order \in Orders(DOMAIN coverage_data) :
         ProcessCoverageCached(coverage_data, order, root, FileTestA, <<DirP>>)
  \/ CacheClear

SpecCached == InitCached /\ [][NextCached]_vars

\* ------------------------------------------------------------------------
\* parser.rs: extract_signature_lines called on the lines of a source
\* ------------------------------------------------------------------------

\* A signature over four lines, with a comment that ends with a colon.
SrcCommentColon ==
  <<"d", "e", "f", " ", "f", "o", "o", "(", "\n", " ", " ", " ", " ", "a",
    ",", " ", " ", "#", " ", "s", "e", "e", " ", "a", "l", "s", "o", " ",
    "d", "i", "c", "t", ":", "\n", " ", " ", " ", " ", "b", ",", "\n", ")",
    ":", "\n", " ", " ", " ", " ", "p", "a", "s", "s", "\n">>

\* A decorator line with a comment colon, and a default value that holds
\* braces, brackets and a colon, over two lines.
SrcDictDefault ==
  <<"@", "d", " ", " ", "#", " ", "n", "o", "t", "e", ":", "\n", "d", "e",
    "f", " ", "g", "(", "a", "=", "{", "\n", " ", " ", "1", ":", " ", "[",
    "2", "]", "}", ")", ":", "\n", " ", "p", "a", "s", "s", "\n">>

\* The lines of every text of the catalogue and of these two.
SignatureSources ==
  LET texts == [i \in DOMAIN Catalogue |-> Catalogue[i].text]
               \o <<SrcCommentColon, SrcDictDefault>>
  IN {Lines(texts[i]) : i \in DOMAIN texts}

\* The line holds the def or class keyword of a definition.
IsHeaderLine(line) ==
  LET spaces == {i \in DOMAIN line : \A j \in 1..i : line[j] = " "}
      code == SubSeq(line, Cardinality(spaces) + 1, Len(line))
  IN \/ StartsWith(code, <<"d", "e", "f", " ">>)
     \/ StartsWith(code, <<"c", "l", "a", "s", "s", " ">>)

\* (source_lines, start, end): start is the header line of a definition and
\* end a line from there on, at most one past the last line.
SignatureInputs ==
  UNION {{<<source_lines, start, end>> :
            start \in {k \in DOMAIN source_lines : IsHeaderLine(source_lines[k])},
            end \in 1..(Len(source_lines) + 1)} :
         source_lines \in SignatureSources}

ExtractSignatureLines ==
  /\ lastOp.op = "args"
  /\ Len(lastOp.args) = 3
  /\ lastOp.args[2] <= lastOp.args[3]
  /\ lastOp' = [lastOp EXCEPT !.op = "extract_signature_lines"]
  /\ result' = [NoResult EXCEPT !.value =
                  extract_signature_lines(lastOp.args[1], lastOp.args[2],
                                          lastOp.args[3])]
  /\ UNCHANGED <<fs, baseline, inMemory>>

InitSignature ==
  /\ fs = InitialFs
  /\ baseline = <<>>
  /\ InitInMemory
  /\ lastOp \in {[NoOp EXCEPT !.op = "args", !.args = input] :
                   input \in {i \in SignatureInputs : i[2] <= i[3]}}
  /\ result = NoResult

SpecSignature == InitSignature /\ [][ExtractSignatureLines]_vars

\* ------------------------------------------------------------------------
\* tracer.rs: calls on one CoverageCollector from several threads
\* ------------------------------------------------------------------------

\* A thread enters a method; test_name, filename and line_no are its arguments.
BeginCall(t, method, test_name, filename, line_no) ==
  /\ threads[t].pc = "idle"
  /\ threads' = [threads EXCEPT ![t] = [pc |-> method, test_name |-> test_name,
                                        filename |-> filename, line_no |-> line_no]]
  /\ UNCHANGED <<fs, baseline, lastOp, result, executions, cache, collector, history>>

Returns(t) == threads' = [threads EXCEPT ![t] = Idle]

\* start_test: lock current_test, assign, return.
StartTestLocked(t) ==
  /\ threads[t].pc = "start_test"
  /\ CurrentTestFree(threads, t)
  /\ collector' = start_test(collector, threads[t].test_name)
  /\ Returns(t)
  /\ UNCHANGED <<fs, baseline, lastOp, result, executions, cache, history>>

\* record_line: lock current_test; with no current test the call returns,
\* otherwise it goes on to lock coverage, the first guard still held.
RecordLineLocked(t) ==
  /\ threads[t].pc = "record_line"
  /\ CurrentTestFree(threads, t)
  /\ IF collector.current_test = None THEN Returns(t)
     ELSE threads' = [threads EXCEPT ![t].pc = "record_line_locked"]
  /\ UNCHANGED <<fs, baseline, lastOp, result, executions, cache, collector, history>>

\* record_line: lock coverage, insert, return (both guards dropped).
RecordLineInserted(t) ==
  /\ threads[t].pc = "record_line_locked"
  /\ CoverageFree(threads, t)
  /\ collector' = record_line(collector, threads[t].filename, threads[t].line_no)
  /\ Returns(t)
  /\ UNCHANGED <<fs, baseline, lastOp, result, executions, cache, history>>

\* finish_test: lock current_test and take() the name; None returns the error,
\* otherwise the call goes on to lock coverage, the first guard still held.
FinishTestTaken(t) ==
  /\ threads[t].pc = "finish_test"
  /\ CurrentTestFree(threads, t)
  /\ IF collector.current_test = None
     THEN /\ Returns(t)
          /\ UNCHANGED collector
     ELSE /\ threads' = [threads EXCEPT ![t].pc = "finish_test_taken",
                                        ![t].test_name = collector.current_test[1]]
          /\ collector' = [collector EXCEPT !.current_test = None]
  /\ UNCHANGED <<fs, baseline, lastOp, result, executions, cache, history>>

\* finish_test: lock coverage, remove the test's entry, return.
FinishTestRemoved(t) ==
  /\ threads[t].pc = "finish_test_taken"
  /\ CoverageFree(threads, t)
  /\ collector' = [collector EXCEPT !.coverage = Remove(@, threads[t].test_name)]
  /\ Returns(t)
  /\ UNCHANGED <<fs, baseline, lastOp, result, executions, cache, history>>

\* clear: lock coverage and clear it; the call goes on to lock current_test,
\* the guard of coverage still held.
ClearCleared(t) ==
  /\ threads[t].pc = "clear"
  /\ CoverageFree(threads, t)
  /\ collector' = [collector EXCEPT !.coverage = <<>>]
  /\ threads' = [threads EXCEPT ![t].pc = "clear_cleared"]
  /\ UNCHANGED <<fs, baseline, lastOp, result, executions, cache, history>>

\* clear: lock current_test, set it to None, return.
ClearReset(t) ==
  /\ threads[t].pc = "clear_cleared"
  /\ CurrentTestFree(threads, t)
  /\ collector' = [collector EXCEPT !.current_test = None]
  /\ Returns(t)
  /\ UNCHANGED <<fs, baseline, lastOp, result, executions, cache, history>>

\* The steps of a thread inside a call.
Step(t) ==
  \/ StartTestLocked(t)
  \/ RecordLineLocked(t)
  \/ RecordLineInserted(t)
  \/ FinishTestTaken(t)
  \/ FinishTestRemoved(t)
  \/ ClearCleared(t)
  \/ ClearReset(t)

NextThreads ==
  \/ \E t \in Threads : BeginCall(t, "start_test", "T1", "", 0)
  \/ \E t \in Threads, line_no \in TracedLines :
       BeginCall(t, "record_line", "", FileA, line_no)
  \/ \E t \in Threads : BeginCall(t, "finish_test", "", "", 0)
  \/ \E t \in Threads : BeginCall(t, "clear", "", "", 0)
  \/ \E t \in Threads : Step(t)

SpecThreads == Init /\ [][NextThreads]_vars

\* The scheduler is fair, and so are the mutexes: a thread whose next step is
\* possible again and again takes it.
FairThreads == SpecThreads /\ \A t \in Threads : SF_vars(Step(t))

\* ------------------------------------------------------------------------
\* Properties
\* ------------------------------------------------------------------------

\* The blocks of the text a file holds now.
CurrentBlocks(path) == parse_module(fs[path].content).blocks

\* The text the baseline row of a file was computed from.
OldSource(path) ==
  CHOOSE id \in DOMAIN Catalogue : file_hash_of(id) = baseline[path].file_hash

Tracked(path) == path \in DOMAIN baseline

InScope(path, scope_paths) ==
  \E i \in DOMAIN scope_paths : PathStartsWith(path, scope_paths[i])

\* The lines of a block that run when the block runs.
BodyLines(block) == block.body_start_line..block.end_line

\* C1: in process_coverage_data a checksum is retained for a file only if some
\* block of the file with that checksum has an executed line inside
\* [body_start_line, end_line]; a block of which only decorator or def lines ran
\* is dropped.
C1_RetainedOnlyWhenBodyExecuted ==
  lastOp.op = "process_coverage_data" =>
    \A fp \in result.fingerprints :
      \A i \in DOMAIN fp.checksums :
        \E j \in DOMAIN CurrentBlocks(fp.filename) :
          /\ CurrentBlocks(fp.filename)[j].checksum = fp.checksums[i]
          /\ BodyLines(CurrentBlocks(fp.filename)[j])
               \cap lastOp.coverage_data[fp.filename] # {}

\* list holds exactly the elements of old that do not occur in new, in the order
\* old has them.
IsOldMinusNew(list, old, new) ==
  LET kept == {i \in DOMAIN old : \A j \in DOMAIN new : new[j] # old[i]}
      Before(i) == Cardinality({k \in kept : k < i})
  IN /\ Len(list) = Cardinality(kept)
     /\ \A i \in kept : list[Before(i) + 1] = old[i]

\* What detect_changes reported for a file it lists: its changed_blocks entry,
\* or nothing.
Contribution(path) ==
  IF path \in DOMAIN result.changed_blocks THEN result.changed_blocks[path] ELSE <<>>

\* C2: find_changed_checksums(old, new) is exactly the elements of old that do
\* not occur in new, in old's order, and holds no checksum that only new has;
\* for every file detect_changes lists as modified, the file's changed_blocks
\* contribution is that list for the baseline checksums (old) and the current
\* checksums (new).
C2_OldMinusNew ==
  /\ lastOp.op = "find_changed_checksums" =>
       /\ IsOldMinusNew(result.value, lastOp.args[1], lastOp.args[2])
       /\ \A k \in DOMAIN result.value :
            /\ result.value[k] \in Range(lastOp.args[1])
            /\ result.value[k] \notin Range(lastOp.args[2])
  /\ lastOp.op = "detect_changes" =>
       \A i \in DOMAIN result.modified :
         /\ Tracked(result.modified[i])
         /\ IsOldMinusNew(Contribution(result.modified[i]),
                          baseline[result.modified[i]].checksums,
                          Checksums(CurrentBlocks(result.modified[i])))

\* A direct call where old has an element new has too, one new lacks, and new
\* has one of its own.
C2_Witness_Direct ==
  /\ lastOp.op = "find_changed_checksums"
  /\ lastOp.args = <<<<2, 1, 3>>, <<3, 3>>>>
  /\ result.value = <<2, 1>>

\* The function definitions of a statement list, at any depth.
RECURSIVE FunctionStmts(_)
FunctionStmts(suite) ==
  UNION {(IF suite[i].kind \in {"FunctionDef", "AsyncFunctionDef"}
          THEN {suite[i]} ELSE {})
         \cup FunctionStmts(suite[i].body)
         \cup FunctionStmts(suite[i].orelse)
         \cup FunctionStmts(suite[i].finalbody)
         \cup UNION {FunctionStmts(suite[i].handlers[h]) :
                       h \in DOMAIN suite[i].handlers}
         : i \in DOMAIN suite}

\* Catalogue texts a and b differ only in the body of the function stmt: both
\* parse to the same statement tree, they have the same number of lines, and
\* every line that differs lies below the header of stmt, inside stmt.
BodyOnlyEditOf(a, b, stmt) ==
  /\ a # b
  /\ Catalogue[a].parse_ok /\ Catalogue[b].parse_ok
  /\ Catalogue[a].suite = Catalogue[b].suite
  /\ stmt \in FunctionStmts(Catalogue[a].suite)
  /\ stmt.start < stmt.body[1].start
  /\ LET la == Lines(Catalogue[a].text)
         lb == Lines(Catalogue[b].text)
     IN /\ Len(la) = Len(lb)
        /\ \A i \in DOMAIN la :
             la[i] # lb[i] => i \in stmt.body[1].start..stmt.end

\* The block parse_module makes of the function stmt of catalogue text a.
BlockOf(a, stmt) ==
  CHOOSE block \in Range(parse_module(a).blocks) :
    /\ block.name = stmt.name
    /\ block.end_line = stmt.end
    /\ block.body_start_line = stmt.body[1].start

ModuleChecksum(a) == parse_module(a).blocks[1].checksum

\* detect_changes walked the file.
Walked(path) ==
  path \in Range(find_python_files(Files, lastOp.root, lastOp.scope_paths))

\* C3: a baselined file of which only the body of one function was edited since
\* the baseline, its mtime moved by at least 1 ms, is listed in modified by
\* detect_changes, changed_blocks[file] holds the old checksum of that function,
\* and the module block has the same checksum before and after the edit.
C3_BodyEditReported ==
  lastOp.op = "detect_changes" =>
    \A path \in Files :
      (/\ Tracked(path)
       /\ Walked(path)
       /\ Abs(fs[path].mtime - baseline[path].mtime) >= MtimeEpsilon) =>
        \A stmt \in FunctionStmts(Catalogue[OldSource(path)].suite) :
          BodyOnlyEditOf(OldSource(path), fs[path].content, stmt) =>
            /\ path \in Range(result.modified)
            /\ BlockOf(OldSource(path), stmt).checksum \in Range(Contribution(path))
            /\ ModuleChecksum(OldSource(path)) = ModuleChecksum(fs[path].content)

\* The file holds the bytes its baseline row was computed from, under another
\* mtime.
Touched(path) ==
  /\ Tracked(path)
  /\ OldSource(path) = fs[path].content
  /\ fs[path].mtime # baseline[path].mtime

C5_BaselineIdempotent ==
  (lastOp.op = "detect_changes" /\ lastOp.streak >= 2) =>
    /\ result.modified = <<>>
    /\ DOMAIN result.changed_blocks = {}

\* Such a call over a scope that holds an edited, tracked file.
C5_Witness_TwiceThenDetect ==
  /\ lastOp.op = "detect_changes"
  /\ lastOp.streak >= 2
  /\ Tracked(FileA)
  /\ Walked(FileA)
  /\ fs[FileA] # FirstSeen(FileA)
  /\ fs[FileA].mtime >= MtimeEpsilon

\* C6: a file detect_changes walks that has no baseline row is in neither
\* modified nor changed_blocks, whatever it holds and whatever its mtime.
C6_UntrackedNotReported ==
  lastOp.op = "detect_changes" =>
    \A path \in Files :
      (Walked(path) /\ ~Tracked(path)) =>
        /\ path \notin Range(result.modified)
        /\ path \notin DOMAIN result.changed_blocks

\* detect_changes walked an untracked file that was edited, next to tracked
\* files.
C6_Witness_Untracked ==
  /\ lastOp.op = "detect_changes"
  /\ Walked(FileA)
  /\ ~Tracked(FileA)
  /\ fs[FileA] # FirstSeen(FileA)
  /\ Walked(FileB)
  /\ Tracked(FileB)

\* The function block of that name ending on that line.
FunctionBlock(blocks, name, end_line) ==
  CHOOSE block \in Range(blocks) :
    /\ block.name = name
    /\ block.end_line = end_line
    /\ block.block_type \in {"function", "async_function"}

\* C7: when two parseable sources differ only in the body of one function or
\* method, parse_module gives the module block of both the same checksum.
C7_ModuleChecksumIgnoresBodies ==
  lastOp.op = "parse_module" =>
    \A stmt \in FunctionStmts(Catalogue[lastOp.args[1]].suite) :
      BodyOnlyEditOf(lastOp.args[1], lastOp.args[2], stmt) =>
        /\ result.value[1].ok
        /\ result.value[2].ok
        /\ result.value[1].blocks[1].block_type = "module"
        /\ result.value[1].blocks[1].checksum = result.value[2].blocks[1].checksum

\* Catalogue text b is text a without the decorator on line d of the function
\* stmt of a.
DecoratorRemoved(a, b, stmt, d) ==
  /\ Catalogue[a].parse_ok /\ Catalogue[b].parse_ok
  /\ stmt \in FunctionStmts(Catalogue[a].suite)
  /\ d \in Range(stmt.decorator_list)
  /\ LET la == Lines(Catalogue[a].text)
         lb == Lines(Catalogue[b].text)
     IN /\ Len(lb) = Len(la) - 1
        /\ \A i \in DOMAIN lb : lb[i] = IF i < d THEN la[i] ELSE la[i + 1]

\* C8: when two sources differ by one decorator of a function, added or
\* removed, parse_module gives that function's block different checksums in the
\* two, and the module block different checksums in the two.
C8_DecoratorChangesBoth ==
  lastOp.op = "parse_module" =>
    \A stmt \in FunctionStmts(Catalogue[lastOp.args[1]].suite) :
      \A d \in Range(stmt.decorator_list) :
        DecoratorRemoved(lastOp.args[1], lastOp.args[2], stmt, d) =>
          /\ FunctionBlock(result.value[1].blocks, stmt.name, stmt.end).checksum
               # FunctionBlock(result.value[2].blocks, stmt.name, stmt.end - 1).checksum
          /\ result.value[1].blocks[1].checksum # result.value[2].blocks[1].checksum

\* The files an entry point put in its output.
OutputFiles ==
  IF lastOp.op = "save_baseline" THEN result.saved
  ELSE IF lastOp.op = "detect_changes"
       THEN Range(result.modified) \cup DOMAIN result.changed_blocks
  ELSE IF lastOp.op = "process_coverage_data"
       THEN {fp.filename : fp \in result.fingerprints}
  ELSE {}

\* C9: a file that lies under none of the scope_paths is in no output: not among
\* the fingerprints save_baseline writes, not in the modified list or the
\* changed_blocks map of detect_changes, not in the result of
\* process_coverage_data; with no scope path every output is empty.
C9_ScopeContainment ==
  /\ \A path \in OutputFiles : InScope(path, lastOp.scope_paths)
  /\ lastOp.scope_paths = <<>> => OutputFiles = {} /\ result.count = 0

\* detect_changes with a scope that leaves out a tracked file it would report
\* otherwise.
C9_Witness_OutOfScope ==
  /\ lastOp.op = "detect_changes"
  /\ lastOp.scope_paths = <<DirO>>
  /\ Tracked(FileA)
  /\ check_file_changed(baseline, fs, FileA).changed
  /\ Tracked(FileB)
  /\ OutputFiles = {}

\* The heuristic that names a path a test file.
IsTestFilePath(path) ==
  \/ Contains(PathString(path), <<"/", "t", "e", "s", "t", "s", "/">>)
  \/ StartsWith(FileName(path), <<"t", "e", "s", "t", "_">>)
  \/ EndsWith(PathString(path), <<"_", "t", "e", "s", "t", ".", "p", "y">>)

\* C10: process_coverage_data called with test file T returns no fingerprint
\* for a path other than T that is a test file by the heuristic.
C10_NoOtherTestFile ==
  lastOp.op = "process_coverage_data" =>
    \A fp \in result.fingerprints :
      fp.filename # lastOp.test_file => ~IsTestFilePath(fp.filename)

\* The coverage map holds a source file and a test file other than T, both in
\* scope; only the source file comes back.
C10_Witness_OtherTestDropped ==
  /\ lastOp.op = "process_coverage_data"
  /\ lastOp.test_file = FileLTest
  /\ FileTestA \in DOMAIN lastOp.coverage_data
  /\ InScope(FileTestA, lastOp.scope_paths)
  /\ {fp.filename : fp \in result.fingerprints} = {FileA}

\* The test file of the call is one of the paths of its coverage map.
TestFileCovered ==
  /\ lastOp.op = "process_coverage_data"
  /\ lastOp.test_file \in DOMAIN lastOp.coverage_data

\* C11 as stated: a coverage entry whose path is the test_file of the call is
\* never rejected by should_process_file.
C11_TestFileNeverRejected ==
  TestFileCovered =>
    should_process_file(lastOp.test_file, lastOp.root, lastOp.test_file,
                        lastOp.scope_paths)

\* C11: a coverage entry whose path is the test_file of the call is admitted
\* by should_process_file exactly when it is a .py path, its path string starts
\* with the project root and it lies under one of the scope_paths: the rule on
\* test files never rejects it, the three rules before it can.
C11_TestFileAdmittedWhenInScope ==
  TestFileCovered =>
    (should_process_file(lastOp.test_file, lastOp.root, lastOp.test_file,
                         lastOp.scope_paths)
       <=> /\ IsPy(lastOp.test_file)
           /\ StartsWith(PathString(lastOp.test_file), PathString(lastOp.root))
           /\ InScope(lastOp.test_file, lastOp.scope_paths))

\* The current test file, named a test file by its _test.py suffix, is in
\* scope and its fingerprint comes back.
C11_Witness_CurrentTestReturned ==
  /\ TestFileCovered
  /\ lastOp.test_file = FileLTest
  /\ lastOp.scope_paths = <<DirS>>
  /\ FileLTest \in {fp.filename : fp \in result.fingerprints}

\* The tests whose fingerprints of the last saved run hold, for some file of
\* changed_blocks, one of the checksums listed for that file.
AffectedTests(saved, changed_blocks) ==
  {t \in DOMAIN saved :
     \E i \in DOMAIN saved[t] :
       /\ saved[t][i].filename \in DOMAIN changed_blocks
       /\ Range(saved[t][i].checksums)
            \cap Range(changed_blocks[saved[t][i].filename]) # {}}

\* C12: after any sequence of save_test_execution calls, get_affected_tests
\* returns exactly the tests whose last saved fingerprint of some file in
\* changed_blocks holds a checksum listed for that file.
C12_AffectedTestsExact ==
  lastOp.op = "get_affected_tests" =>
    Range(result.value) = AffectedTests(executions, lastOp.args[1])

\* Among the keys of the map, the one whose last get or insert is the oldest.
LeastRecentlyTouched(map, touched) ==
  LET Position(key) == CHOOSE i \in DOMAIN touched : touched[i].key = key IN
  CHOOSE key \in LruKeys(map) :
    \A other \in LruKeys(map) : Position(key) <= Position(other)

\* What an insert of key does to the keys of a map of capacity cap.
KeysAfterInsert(map, cap, touched, key) ==
  IF key \notin LruKeys(map) /\ Len(map) = cap
  THEN (LruKeys(map) \ {LeastRecentlyTouched(map, touched)}) \cup {key}
  ELSE LruKeys(map) \cup {key}

\* C13: in each map of the cache, the insert of a new key into a full map
\* removes exactly the key whose last get or insert is the oldest; no other
\* insert and no get removes a key.
C13_EvictsLeastRecentlyTouched ==
  [][/\ lastOp'.op = "insert_fingerprint" =>
          LruKeys(cache'.fingerprints)
            = KeysAfterInsert(cache.fingerprints, cache.cap,
                              history.touched.fingerprints, lastOp'.args[1])
     /\ lastOp'.op = "insert_test_mapping" =>
          LruKeys(cache'.test_mappings)
            = KeysAfterInsert(cache.test_mappings, cache.cap,
                              history.touched.test_mappings, lastOp'.args[1])
     /\ lastOp'.op \in {"get_fingerprint", "get_test_mapping",
                        "insert_fingerprint", "insert_test_mapping"} =>
          /\ Len(cache'.fingerprints) <= cache.cap
          /\ Len(cache'.test_mappings) <= cache.cap
          /\ lastOp'.op # "insert_fingerprint" =>
               LruKeys(cache'.fingerprints) = LruKeys(cache.fingerprints)
          /\ lastOp'.op # "insert_test_mapping" =>
               LruKeys(cache'.test_mappings) = LruKeys(cache.test_mappings)]_vars

\* A map of capacity 2 after insert a, insert b, get a, insert c: b, the first
\* of the touched list, is gone; a, last hit by a get, is kept with c.
C13_Witness_GetThenEvict ==
  /\ cache.cap = 2
  /\ lastOp.op = "insert_fingerprint"
  /\ [i \in DOMAIN history.touched.fingerprints |->
        <<history.touched.fingerprints[i].key, history.touched.fingerprints[i].by>>]
       = <<<<FileB, "insert">>, <<FileA, "get">>, <<FileC, "insert">>>>
  /\ LruKeys(cache.fingerprints) = {FileA, FileC}

\* The (filename, line_no) pairs handed to record_line for the current test.
PassedToRecordLine == OrDefault(history.recorded, collector.current_test[1], {})

\* The list is ascending and holds no line twice.
Ascending(lines_vec) ==
  \A i \in DOMAIN lines_vec : \A j \in DOMAIN lines_vec :
    i < j => lines_vec[i] < lines_vec[j]

\* C14: finish_test returns, for the current test, a map whose keys are the
\* files with at least one recorded line; each file maps to the ascending list,
\* without duplicates, of the lines handed to record_line for that test and
\* file, and the map holds no other file or line.
C14_FinishReturnsRecordedLines ==
  [][(lastOp'.op = "finish_test" /\ collector.current_test # None) =>
       /\ result'.value.ok
       /\ DOMAIN result'.value.value = {pair[1] : pair \in PassedToRecordLine}
       /\ \A file \in DOMAIN result'.value.value :
            /\ Ascending(result'.value.value[file])
            /\ Range(result'.value.value[file])
                 = {pair[2] : pair \in {p \in PassedToRecordLine : p[1] = file}}]_vars

\* The run of test_coverage_collection: two lines of one file, one of
\* which recorded twice, and one line of another file.
C14_Witness_TwoFiles ==
  /\ lastOp.op = "finish_test"
  /\ result.value = Ok([file \in {FileA, FileB} |->
                          IF file = FileA THEN <<10, 11>> ELSE <<10>>])

\* C15: finish_test called while no test is running (none was started, the
\* last one was finished, or clear was called) returns the error 'No test
\* currently running' and leaves current_test and the coverage map as they
\* were.
C15_FinishWithoutTestFails ==
  [][(lastOp'.op = "finish_test" /\ collector.current_test = None) =>
       /\ result'.value = Err("No test currently running")
       /\ collector' = collector]_vars

\* The error came back after a test was finished, with the lines of another
\* test, never finished, still in the coverage map.
C15_Witness_AlreadyFinished ==
  /\ lastOp.op = "finish_test"
  /\ ~result.value.ok
  /\ history.ended = "finished"
  /\ collector.coverage # <<>>

\* Every function, async function and class statement of the tree, at any depth.
RECURSIVE DefinitionStmts(_)
DefinitionStmts(suite) ==
  UNION {(IF IsDefinition(suite[i]) THEN {suite[i]} ELSE {})
         \cup DefinitionStmts(suite[i].body)
         \cup DefinitionStmts(suite[i].orelse)
         \cup DefinitionStmts(suite[i].finalbody)
         \cup UNION {DefinitionStmts(suite[i].handlers[h]) :
                       h \in DOMAIN suite[i].handlers}
         : i \in DOMAIN suite}

\* The definitions of catalogue text a in source order, each as its name and
\* last line.  A definition encloses the ones defined inside it and starts
\* before them, so the order of the def and class lines is the pre-order.
RECURSIVE InSourceOrder(_)
InSourceOrder(stmts) ==
  IF stmts = {} THEN <<>>
  ELSE LET first == CHOOSE s \in stmts : \A other \in stmts : s.start <= other.start
       IN <<<<first.name, first.end>>>> \o InSourceOrder(stmts \ {first})

\* C16: for every source that parses, the block list starts with the block
\* named <module>; the blocks after it are those of the definitions, in source
\* order: a definition before the definitions nested in it, these before the
\* definitions that follow it.
C16_ModuleFirstThenPreOrder ==
  lastOp.op = "parse_module" =>
    \A k \in 1..2 :
      LET parsed == result.value[k]
          blocks == parsed.blocks
          rest == SubSeq(blocks, 2, Len(blocks))
      IN parsed.ok =>
           /\ blocks # <<>>
           /\ blocks[1].name = "<module>"
           /\ blocks[1].block_type = "module"
           /\ \A i \in DOMAIN rest : rest[i].block_type # "module"
           /\ [i \in DOMAIN rest |-> <<rest[i].name, rest[i].end_line>>]
                = InSourceOrder(DefinitionStmts(Catalogue[lastOp.args[k]].suite))
           /\ \A i \in DOMAIN rest : \A j \in DOMAIN rest :
                i < j => /\ rest[i].start_line < rest[j].start_line
                         /\ \/ rest[i].end_line < rest[j].start_line
                            \/ rest[j].end_line <= rest[i].end_line

\* The class with a method that defines a function, a nested class and a
\* function after it, next to the try statement with a function in each part.
C16_Witness_Nested ==
  /\ lastOp.op = "parse_module"
  /\ [i \in DOMAIN result.value[1].blocks |-> result.value[1].blocks[i].name]
       = <<"<module>", "C", "m", "n", "D", "g">>
  /\ [i \in DOMAIN result.value[2].blocks |-> result.value[2].blocks[i].name]
       = <<"<module>", "t", "e", "o", "z">>

\* The three line numbers the block of definition stmt is to carry.
ExpectedLines(stmt) ==
  [name |-> stmt.name,
   start_line |-> IF stmt.decorator_list # <<>> THEN stmt.decorator_list[1]
                  ELSE stmt.start,
   body_start_line |-> IF stmt.kind = "ClassDef" THEN stmt.start
                       ELSE stmt.body[1].start,
   end_line |-> stmt.end]

BlockLines(block) ==
  [name |-> block.name, start_line |-> block.start_line,
   body_start_line |-> block.body_start_line, end_line |-> block.end_line]

\* Every block is ordered start_line <= body_start_line <= end_line and lies
\* inside the module block; the blocks after the first carry the lines of the
\* definitions of catalogue text a; the module block runs from line 1, where
\* its body starts too, to module_end.
BlockRanges(a, blocks, module_end) ==
  /\ \A i \in DOMAIN blocks :
       /\ blocks[i].start_line <= blocks[i].body_start_line
       /\ blocks[i].body_start_line <= blocks[i].end_line
       /\ blocks[1].start_line <= blocks[i].start_line
       /\ blocks[i].end_line <= blocks[1].end_line
  /\ {BlockLines(blocks[i]) : i \in 2..Len(blocks)}
       = {ExpectedLines(stmt) : stmt \in DefinitionStmts(Catalogue[a].suite)}
  /\ blocks[1].start_line = 1
  /\ blocks[1].body_start_line = 1
  /\ blocks[1].end_line = module_end

\* C17 as stated: the module block ends at the line count of the file.
C17_ModuleEndsAtLineCount ==
  lastOp.op = "parse_module" =>
    \A k \in 1..2 :
      result.value[k].ok =>
        BlockRanges(lastOp.args[k], result.value[k].blocks,
                    Len(Lines(Catalogue[lastOp.args[k]].text)))

\* C17: every block has start_line <= body_start_line <= end_line, with
\* start_line the first decorator line, or the header line without decorator,
\* and body_start_line the line of the first body statement of a function and
\* the class line of a class; the module block has start_line =
\* body_start_line = 1 and ends at the line count of the file, at line 1 for a
\* file without any line, and covers every other block.
C17_BlockRanges ==
  lastOp.op = "parse_module" =>
    \A k \in 1..2 :
      result.value[k].ok =>
        BlockRanges(lastOp.args[k], result.value[k].blocks,
                    Max(Len(Lines(Catalogue[lastOp.args[k]].text)), 1))

\* The empty source, whose module block is 1..1, next to a source with a
\* decorated function whose header and body lie on lines of their own.
C17_Witness_EmptyAndDecorated ==
  /\ lastOp.op = "parse_module"
  /\ Lines(Catalogue[lastOp.args[1]].text) = <<>>
  /\ result.value[1].ok
  /\ result.value[1].blocks[1].end_line = 1
  /\ result.value[2].ok
  /\ \E i \in DOMAIN result.value[2].blocks :
       /\ result.value[2].blocks[i].start_line < result.value[2].blocks[i].body_start_line - 1
       /\ result.value[2].blocks[i].body_start_line < result.value[2].blocks[i].end_line

\* The call was stopped as a whole.
FailedAsAWhole == result.value \in {Err("StoreError"), Err("IoError")}

\* The files the call would put out with nothing failing, less the files that
\* could not be read.
FilesWithoutFaults(unreadable) ==
  IF lastOp.op = "save_baseline"
  THEN {path \in Range(PythonFiles[lastOp.root, lastOp.scope_paths]) :
          calculate_fingerprint_internal(fs, path).ok} \ unreadable
  ELSE {path \in Range(PythonFiles[lastOp.root, lastOp.scope_paths]) :
          check_file_changed(baseline, fs, path).changed} \ unreadable

\* A failure of one file (it cannot be read or stat'ed, or it does not parse)
\* skips that file only: the call succeeds and puts out every other file.
PerFileFailureSkipsFile ==
  (lastOp.op \in {"save_baseline", "detect_changes"} /\ ~FailedAsAWhole) =>
    IF lastOp.op = "save_baseline"
    THEN result.saved = FilesWithoutFaults(lastOp.args[1].unreadable)
    ELSE Range(result.modified) = FilesWithoutFaults(lastOp.args[1].unreadable)

\* C18: save_baseline, detect_changes and process_coverage_data fail as a
\* whole only on a store error or an I/O error on the root path; a failure
\* confined to one file skips that file only, and the run succeeds.
C18_WholeFailureOnlyOnStoreOrRoot ==
  /\ lastOp.op = "process_coverage_data" => ~FailedAsAWhole
  /\ lastOp.op \in {"save_baseline", "detect_changes"} =>
       (FailedAsAWhole =>
          \/ lastOp.args[1].store # "none"
          \/ lastOp.root \in lastOp.args[1].denied)
  /\ PerFileFailureSkipsFile

\* The text of each top-level statement of catalogue text a, decorators
\* included.
TopLevelTexts(a) ==
  LET suite == Catalogue[a].suite
      First(stmt) == IF stmt.decorator_list # <<>> THEN stmt.decorator_list[1]
                     ELSE stmt.start
  IN [i \in DOMAIN suite |->
        extract_source_lines(Catalogue[a].text, First(suite[i]), suite[i].end).text]

\* Catalogue text b is a with its top-level statements in another order:
\* the same statement texts, each as many times, on as many lines.
ReorderOf(a, b) ==
  /\ Catalogue[a].parse_ok /\ Catalogue[b].parse_ok
  /\ Len(Lines(Catalogue[a].text)) = Len(Lines(Catalogue[b].text))
  /\ LET ta == TopLevelTexts(a)
         tb == TopLevelTexts(b)
     IN /\ ta # tb
        /\ Len(ta) = Len(tb)
        /\ \A i \in DOMAIN ta :
             Cardinality({j \in DOMAIN ta : ta[j] = ta[i]})
               = Cardinality({j \in DOMAIN tb : tb[j] = ta[i]})

\* The functions of a that b holds at another place.
ReorderedFunctions(a, b) ==
  {Catalogue[a].suite[i] : i \in
     {j \in DOMAIN Catalogue[a].suite :
        /\ Catalogue[a].suite[j].kind \in {"FunctionDef", "AsyncFunctionDef"}
        /\ TopLevelTexts(a)[j] # TopLevelTexts(b)[j]}}

\* A baselined file, walked by this detect_changes, whose functions were put in
\* another order since the baseline, its mtime moved by at least 1 ms.
Reordered(path) ==
  /\ lastOp.op = "detect_changes"
  /\ Tracked(path)
  /\ Walked(path)
  /\ Abs(fs[path].mtime - baseline[path].mtime) >= MtimeEpsilon
  /\ ReorderOf(OldSource(path), fs[path].content)

C20_OnlyFilesUnderProjectRoot ==
  lastOp.op = "process_coverage_data" =>
    \A fp \in result.fingerprints : PathStartsWith(fp.filename, lastOp.root)

\* C21: process_coverage_data given a cache returns the fingerprints it returns
\* without one, for the same coverage data and the same files on disk, whatever
\* edits, insertions, evictions and clears came before.
C21_CacheNeverChangesResult ==
  (lastOp.op = "process_coverage_data" /\ lastOp.args = <<"cache">>) =>
    result.fingerprints =
      process_coverage_data_internal(fs, lastOp.coverage_data, lastOp.root,
                                     lastOp.test_file, lastOp.scope_paths)

\* The depth of each kind of bracket after the characters of a line: one up at
\* an opening character, one down at a closing one, never below zero.
RECURSIVE NestingDepths(_, _, _)
NestingDepths(line, i, d) ==
  IF i > Len(line) THEN d
  ELSE IF line[i] \notin {"(", ")", "[", "]", "{", "}"}
    THEN NestingDepths(line, i + 1, d)
  ELSE LET ch == line[i]
           Down(n) == IF n = 0 THEN 0 ELSE n - 1
       IN NestingDepths(line, i + 1,
            IF ch = "(" THEN [d EXCEPT !.paren = @ + 1]
            ELSE IF ch = ")" THEN [d EXCEPT !.paren = Down(@)]
            ELSE IF ch = "[" THEN [d EXCEPT !.bracket = @ + 1]
            ELSE IF ch = "]" THEN [d EXCEPT !.bracket = Down(@)]
            ELSE IF ch = "{" THEN [d EXCEPT !.brace = @ + 1]
            ELSE [d EXCEPT !.brace = Down(@)])

\* The depths after the lines start..k.
RECURSIVE DepthsAfter(_, _, _)
DepthsAfter(source_lines, start, k) ==
  IF k < start THEN [paren |-> 0, bracket |-> 0, brace |-> 0]
  ELSE NestingDepths(source_lines[k], 1, DepthsAfter(source_lines, start, k - 1))

\* Line k ends the signature: its code portion ends with ":" at depth zero.
EndsSignature(source_lines, start, k) ==
  /\ EndsWith(strip_trailing_comment(TrimEnd(source_lines[k])), <<":">>)
  /\ DepthsAfter(source_lines, start, k) = [paren |-> 0, bracket |-> 0, brace |-> 0]

\* The lines from start through the first one that ends the signature, or
\* through the last line of the range when none does.
SignatureLines(source_lines, start, end) ==
  LET range_end == Min(end, Len(source_lines))
      ends == {k \in start..range_end : EndsSignature(source_lines, start, k)}
      last == IF ends = {} THEN range_end
              ELSE CHOOSE k \in ends : \A j \in ends : k <= j
  IN SubSeq(source_lines, start, last)

\* C22: extract_signature_lines returns the lines from the header line through
\* the first line whose comment-stripped code portion ends with ":" while the
\* (), [] and {} depths are all zero, and no line after it; a comment that ends
\* with ":" on an intermediate line does not end the signature.
C22_SignatureEndsAtFirstColonAtDepthZero ==
  lastOp.op = "extract_signature_lines" =>
    result.value = SignatureLines(lastOp.args[1], lastOp.args[2], lastOp.args[3])

\* The file's mtime is less than 1 ms away from the mtime of its baseline row.
WithinEpsilon(path) ==
  /\ Tracked(path)
  /\ Abs(fs[path].mtime - baseline[path].mtime) < MtimeEpsilon

\* C23: a baselined file whose current mtime differs from the stored mtime by
\* less than 1 ms is declared unchanged by check_file_changed at Level 1, before
\* the file is read, hashed or parsed, whatever it holds now; detect_changes
\* lists it neither in modified nor in changed_blocks.
C23_WithinEpsilonUnchanged ==
  lastOp.op = "detect_changes" =>
    \A path \in Files :
      WithinEpsilon(path) =>
        /\ check_file_changed(baseline, fs, path) = Verdict(FALSE, 1, path, <<>>, FALSE)
        /\ path \notin Range(result.modified)
        /\ path \notin DOMAIN result.changed_blocks

\* detect_changes walked a baselined file that was rewritten with another text
\* half a millisecond after the baseline, and reported nothing.
C23_Witness_RewrittenWithinEpsilon ==
  /\ lastOp.op = "detect_changes"
  /\ Walked(FileA)
  /\ WithinEpsilon(FileA)
  /\ fs[FileA].mtime # baseline[FileA].mtime
  /\ file_hash_of(fs[FileA].content) # baseline[FileA].file_hash
  /\ Checksums(parse_module(fs[FileA].content).blocks) # baseline[FileA].checksums
  /\ result.modified = <<>>

\* The blocks of which a line of the body ran, in the order of the list.
ExecutedBlocks(blocks, executed_lines) ==
  LET Ran(block) == BodyLines(block) \cap executed_lines # {} IN
  SelectSeq(blocks, Ran)

\* C24: every fingerprint process_coverage_data returns has no blocks, and its
\* checksums are those of the executed blocks of the file, in source order; a
\* file with no executed block yields no fingerprint.
C24_ChecksumsOfExecutedBlocks ==
  lastOp.op = "process_coverage_data" =>
    \A fp \in result.fingerprints :
      /\ ~fp.blocks.some
      /\ fp.checksums # <<>>
      /\ fp.checksums =
           Checksums(ExecutedBlocks(CurrentBlocks(fp.filename),
                                    lastOp.coverage_data[fp.filename]))

\* C25: calls of start_test, record_line, finish_test and clear made from
\* different threads never deadlock: under a fair scheduler every call that
\* was entered returns.
C25_EveryCallReturns ==
  \A t \in Threads : (threads[t].pc # "idle") ~> (threads[t].pc = "idle")

\* C26: finish_test returns only lines recorded between the most recent
\* start_test and that finish_test; a line recorded under an earlier start_test
\* that was never finished is not in the result.
C26_FinishReturnsOnlyLinesSinceStart ==
  [][(lastOp'.op = "finish_test" /\ collector.current_test # None) =>
       \A file \in DOMAIN result'.value.value :
         \A line_no \in Range(result'.value.value[file]) :
           <<file, line_no>> \in history.since_start]_vars

\* C27: each of the two maps of a Cache built by with_capacity(n) holds at most
\* max(n, 1) entries after any sequence of operations, Cache::new() asks for
\* 10,000, and clear leaves both maps empty.
C27_MapsWithinCapacity ==
  /\ Len(cache.fingerprints) <= Max(history.requested, 1)
  /\ Len(cache.test_mappings) <= Max(history.requested, 1)
  /\ lastOp.op = "clear" => (cache.fingerprints = <<>> /\ cache.test_mappings = <<>>)
  /\ Cache_new = Cache_with_capacity(10000)

\* A cache asked for capacity 0 holds one entry in each map after two keys
\* were inserted into each.
C27_Witness_CapacityZero ==
  /\ history.requested = 0
  /\ Len(history.touched.fingerprints) = 2
  /\ Len(history.touched.test_mappings) = 2
  /\ Len(cache.fingerprints) = 1
  /\ Len(cache.test_mappings) = 1

\* The file parses, and its checksum list is another list than the baseline's
\* that still holds every checksum of the baseline.
KeepsEveryBaselineChecksum(path) ==
  /\ Tracked(path)
  /\ parse_module(fs[path].content).ok
  /\ Checksums(CurrentBlocks(path)) # baseline[path].checksums
  /\ Range(baseline[path].checksums) \subseteq Range(Checksums(CurrentBlocks(path)))

\* Every key of changed_blocks is in modified and maps to a non-empty list.
ChangedBlocksWithinModified ==
  \A file \in DOMAIN result.changed_blocks :
    /\ file \in Range(result.modified)
    /\ result.changed_blocks[file] # <<>>

\* C28 as stated: in every detect_changes result each key of changed_blocks is
\* in modified and maps to a non-empty list, and a baselined file whose current
\* checksum list differs from the baseline's but holds every baseline checksum
\* is in modified without a changed_blocks entry.
C28_SupersetFileListed ==
  lastOp.op = "detect_changes" =>
    /\ ChangedBlocksWithinModified
    /\ \A path \in Files :
         KeepsEveryBaselineChecksum(path) =>
           /\ path \in Range(result.modified)
           /\ path \notin DOMAIN result.changed_blocks

\* C28, amended: the same, for the files the call walks whose mtime is at least
\* 1 ms away from the baseline's; any other such file is in neither output.
C28_SupersetFileListedWhenCompared ==
  lastOp.op = "detect_changes" =>
    /\ ChangedBlocksWithinModified
    /\ \A path \in Files :
         KeepsEveryBaselineChecksum(path) =>
           /\ path \in Range(result.modified)
                <=> (Walked(path) /\ ~WithinEpsilon(path))
           /\ path \notin DOMAIN result.changed_blocks

\* The baseline holds a function twice, one copy was edited since: the file is
\* listed, and no checksum of the baseline is gone.
C28_Witness_ListedWithoutEntry ==
  /\ lastOp.op = "detect_changes"
  /\ KeepsEveryBaselineChecksum(FileA)
  /\ OldSource(FileA) = SourceId(SrcTwin.text)
  /\ result.modified = <<FileA>>
  /\ result.changed_blocks = <<>>
  /\ result.modified = <<FileA>>
  /\ result.changed_blocks = <<>>

\* The file passes every level of check_file_changed: it has a baseline row,
\* its mtime moved by 1 ms or more, its hash is not the stored one, its text
\* parses and its checksum list is not the stored one.
PassesEveryLevel(path) ==
  /\ Tracked(path)
  /\ path \in DOMAIN fs
  /\ Abs(fs[path].mtime - baseline[path].mtime) >= MtimeEpsilon
  /\ file_hash_of(fs[path].content) # baseline[path].file_hash
  /\ parse_module(fs[path].content).ok
  /\ Checksums(parse_module(fs[path].content).blocks) # baseline[path].checksums

\* C29: every file listed in modified by detect_changes is a walked file in
\* scope that has a baseline row, whose mtime is at least 1 ms away from the
\* stored mtime, whose file hash differs from the stored hash, whose content
\* parses and whose checksum list differs from the stored list; a file that
\* fails one of these is not in modified.
C29_ModifiedPassedEveryLevel ==
  lastOp.op = "detect_changes" =>
    \A path \in Files \cup Range(result.modified) :
      path \in Range(result.modified) =>
        /\ path \in Files
        /\ Walked(path)
        /\ InScope(path, lastOp.scope_paths)
        /\ PassesEveryLevel(path)

\* detect_changes reported a file that passed every level.
C29_Witness_ReportedAfterEveryLevel ==
  /\ lastOp.op = "detect_changes"
  /\ FileA \in Range(result.modified)
  /\ Walked(FileA)
  /\ InScope(FileA, lastOp.scope_paths)
  /\ PassesEveryLevel(FileA)

=============================================================================
